---- MODULE Spec2Model ----
(***************************************************************************)
(* Model of the portfolio ledger (modules/portfolio_manager.py, class      *)
(* Portfolio) and of the order lifecycle (modules/order_manager.py, class  *)
(* OrderManager).                                                          *)
(*                                                                         *)
(* Numbers.  The code computes with Python floats.  Quantities, prices and *)
(* money are modelled as integers (a fixed smallest unit), products and    *)
(* sums are exact, and every quotient the code stores (average_price,      *)
(* allocation, profit_loss_percent) is kept as an exact fraction <<n, d>>  *)
(* in lowest terms with d > 0, so two stored quotients are equal exactly   *)
(* when the pairs are equal.                                               *)
(*                                                                         *)
(* Time.  Timestamps (created_at, updated_at, first_purchased,             *)
(* last_updated, the timestamp of a trade record, the date of a snapshot)  *)
(* are wall-clock strings that no decision of the ledger reads; they are   *)
(* left out of the ledger records.                                         *)
(***************************************************************************)
EXTENDS Integers, Sequences, FiniteSets, TLC

(***************************************************************************)
(* Bounds of the model                                                     *)
(***************************************************************************)
\* number of record_trade calls that succeed in one behaviour
MaxTrades == 2
\* the configured portfolio.initial_capital, in money units
InitialCapital == 2

\* the symbols of the asset configuration, which the price fetcher prices
Symbols == {"BTC", "ETH"}
\* the symbols callers trade
TradedSymbols == {"BTC"}
\* the quantities and prices callers pass to record_trade: the documented
\* precondition (quantity > 0, price > 0), which every caller establishes
Quantities == {1, 2}
Prices == {1, 2}
\* the prices a price record of the fetcher can carry
SnapshotPrices == {0} \cup Prices

\* the action strings a caller passes to record_trade
TradeActions == {"buy", "sell", "SELL", "hold"}

VARIABLES
    holdings,       \* Portfolio.holdings: the whole portfolio document
    price_fetcher,  \* Portfolio.price_fetcher is set (TRUE) or None (FALSE)
    disk,           \* content of <storage_path>/portfolio.json, NoFile if absent
    last            \* the last Portfolio method called, its arguments and result

pvars == <<holdings, price_fetcher, disk, last>>

VARIABLES
    test_mode,           \* OrderManager.test_mode
    trade_confirmation,  \* OrderManager.trade_confirmation (system.trade_confirmation)
    order_files,         \* the order_<id>_<date>.json files of output_path: id -> result
    exchange_calls,      \* calls of client.create_market_order / create_limit_order so far
    now,                 \* int(time.time())
    result,              \* what the last OrderManager call did and returned
    cancel_files         \* the cancel_<id>_<date>.json files of output_path: id -> result

ovars == <<test_mode, trade_confirmation, order_files, exchange_calls, now, result,
           cancel_files>>

VARIABLES
    scheduler,  \* run_scheduler: where the loop is, the cycles started and ended
    limiter,    \* one APIRateLimiter, the clock and the last returns of wait_if_needed
    request,    \* one network request: its retry policy, attempts and outcome
    peer        \* Portfolio.holdings of a second Portfolio on the same storage path

mvars == <<scheduler, limiter, request, peer>>

vars == <<holdings, price_fetcher, disk, last,
          test_mode, trade_confirmation, order_files, exchange_calls, now, result,
          cancel_files, scheduler, limiter, request, peer>>

(***************************************************************************)
(* Exact fractions                                                         *)
(***************************************************************************)
Abs(x) == IF x < 0 THEN -x ELSE x

RECURSIVE Gcd(_, _)
Gcd(a, b) == IF b = 0 THEN a ELSE Gcd(b, a % b)

\* the quotient n / d (d > 0) in lowest terms
Frac(n, d) ==
    LET g == Gcd(Abs(n), d)
    IN  <<n \div g, d \div g>>

Zero == Frac(0, 1)

\* a <= b for fractions with positive denominators
FracLeq(a, b) == a[1] * b[2] <= b[1] * a[2]

(***************************************************************************)
(* The portfolio document                                                  *)
(***************************************************************************)
NoFile == [exists |-> FALSE]

\* the "allocation" key of a holding is absent until calculate_allocations
\* writes it
NoAllocation == <<>>

\* dict.get("allocation", 0)
GetAllocation(holding) ==
    IF holding.allocation = NoAllocation THEN Zero ELSE holding.allocation

\* the empty dictionary {}
EmptyMap == [s \in {} |-> 0]

\* dictionary d with key s set to v
Put(d, s, v) == [t \in DOMAIN d \cup {s} |-> IF t = s THEN v ELSE d[t]]

\* del d[s]
Del(d, s) == [t \in DOMAIN d \ {s} |-> d[t]]

RECURSIVE SumOver(_, _)
\* the sum of f[s] over the symbols s of S
SumOver(f, S) ==
    IF S = {} THEN 0
    ELSE LET s == CHOOSE x \in S : TRUE
         IN  f[s] + SumOver(f, S \ {s})

\* str.lower() on the action strings
Lower(action) == IF action = "SELL" THEN "sell" ELSE action

_initialize_portfolio ==
    [ initial_capital |-> InitialCapital,
      cash            |-> InitialCapital,
      total_value     |-> InitialCapital,
      holdings        |-> EmptyMap,
      has_trades      |-> FALSE,
      trades          |-> <<>>,
      history         |-> << [ total_value |-> InitialCapital,
                               cash        |-> InitialCapital,
                               holdings    |-> EmptyMap ] >> ]

\* json.dump(self.holdings) into portfolio.json
save_portfolio(doc) == [exists |-> TRUE, doc |-> doc]

\* json.load of portfolio.json, None (NoFile) when the file does not exist
_load_portfolio(file) == file

\* the document of a Portfolio constructed on this storage:
\* self._load_portfolio() or self._initialize_portfolio()
LoadedPortfolio(file) ==
    IF _load_portfolio(file).exists THEN _load_portfolio(file).doc
    ELSE _initialize_portfolio

(***************************************************************************)
(* Portfolio.calculate_allocations                                         *)
(***************************************************************************)
\* one holding's allocation: current_value / total_value
AllocationOf(holding, total_value) == Frac(holding.current_value, total_value)

\* the document after calculate_allocations: nothing is written when
\* total_value <= 0, else every holding gets its "allocation" key
calculate_allocations(doc) ==
    IF doc.total_value <= 0 THEN doc
    ELSE [doc EXCEPT !.holdings =
            [s \in DOMAIN doc.holdings |->
                [doc.holdings[s] EXCEPT
                    !.allocation = AllocationOf(doc.holdings[s], doc.total_value)]]]

\* the dictionary calculate_allocations returns
AllocationsDict(doc) ==
    IF doc.total_value <= 0 THEN [exists |-> FALSE]
    ELSE [ exists |-> TRUE,
           cash   |-> Frac(doc.cash, doc.total_value),
           assets |-> [s \in DOMAIN doc.holdings |->
                          AllocationOf(doc.holdings[s], doc.total_value)] ]

(***************************************************************************)
(* Portfolio.update_prices                                                 *)
(***************************************************************************)
\* the price snapshots get_latest_prices can return while the symbols of
\* held are held: a price record for some of the configured symbols, the
\* price itself possibly 0.  update_prices looks up the held symbols only, so
\* the price of a symbol that is not held is fixed to 1.
PriceSnapshots(held) ==
    UNION { { f \in [S -> SnapshotPrices] : \A s \in S \ held : f[s] = 1 } :
            S \in SUBSET Symbols }

\* the loop body reaches the revaluation of symbol s: there is price data and
\* the price is not 0
Priced(prices, s) == s \in DOMAIN prices /\ prices[s] # 0

\* one holding after the loop body of update_prices
RevalueHolding(holding, prices, s) ==
    IF ~Priced(prices, s) THEN holding
    ELSE LET current_value == holding.quantity * prices[s]
             profit_loss   == current_value - holding.cost_basis
         IN  [holding EXCEPT
                !.current_price = prices[s],
                !.current_value = current_value,
                !.profit_loss   = profit_loss,
                !.profit_loss_percent =
                    IF holding.cost_basis > 0
                    THEN Frac(profit_loss * 100, holding.cost_basis)
                    ELSE Zero]

\* what one holding adds to the running total_value of update_prices
ValueAdded(holding, prices, s) ==
    IF Priced(prices, s) THEN holding.quantity * prices[s] ELSE 0

\* the total update_prices stores: cash plus the holdings revalued in the loop
\* the total that starts from the old total_value
RecomputedTotal_onto_total(doc, prices) ==
    doc.total_value + SumOver([s \in DOMAIN doc.holdings |->
                                 ValueAdded(doc.holdings[s], prices, s)],
                              DOMAIN doc.holdings)

RecomputedTotal(doc, prices) ==
    doc.cash + SumOver([s \in DOMAIN doc.holdings |->
                          ValueAdded(doc.holdings[s], prices, s)],
                       DOMAIN doc.holdings)

\* update_prices on document doc, with the fetcher set or not and the
\* snapshot the fetcher returns: the result, the new document and whether
\* save_portfolio was reached
update_prices(doc, fetcher, prices) ==
    IF ~fetcher THEN [ok |-> FALSE, doc |-> doc, saved |-> FALSE]
    ELSE IF DOMAIN prices = {} THEN [ok |-> FALSE, doc |-> doc, saved |-> FALSE]
    ELSE LET revalued ==
                [doc EXCEPT
                    !.holdings = [s \in DOMAIN doc.holdings |->
                                    RevalueHolding(doc.holdings[s], prices, s)],
                    !.total_value = RecomputedTotal(doc, prices)]
         IN  [ok |-> TRUE, doc |-> calculate_allocations(revalued), saved |-> TRUE]

(***************************************************************************)
(* Portfolio.record_trade                                                  *)
(***************************************************************************)
\* EnoughCash with the funds check left out
EnoughCash_unchecked(trade_value, cash) == TRUE

\* the buy branch's funds check passes (the code returns False when
\* trade_value > cash)
EnoughCash(trade_value, cash) == ~(trade_value > cash)

\* the sell branch's quantity check passes (the code returns False when
\* quantity > available_quantity)
EnoughQuantity(quantity, available_quantity) == ~(quantity > available_quantity)

\* the holding a buy of a symbol not yet held creates
NewHolding(quantity, price) ==
    [ quantity            |-> quantity,
      cost_basis          |-> quantity * price,
      average_price       |-> Frac(price, 1),
      current_price       |-> price,
      current_value       |-> quantity * price,
      profit_loss         |-> 0,
      profit_loss_percent |-> Zero,
      allocation          |-> NoAllocation ]

\* an existing holding after a buy
BoughtHolding(holding, quantity, price) ==
    LET new_quantity   == holding.quantity + quantity
        new_cost_basis == holding.cost_basis + quantity * price
    IN  [holding EXCEPT
            !.quantity      = new_quantity,
            !.cost_basis    = new_cost_basis,
            !.average_price = IF new_quantity > 0
                              THEN Frac(new_cost_basis, new_quantity)
                              ELSE Zero,
            !.current_price = price,
            !.current_value = new_quantity * price]

\* a holding after a sell that leaves new_quantity > 0
SoldHolding(holding, new_quantity, price) ==
    [holding EXCEPT
        !.quantity      = new_quantity,
        !.current_value = new_quantity * price]

\* FullySold with the comparison off by one
FullySold_strict(new_quantity) == new_quantity < 0

\* the sell branch removes the holding
FullySold(new_quantity) == new_quantity <= 0

\* the holdings map after the sell branch
SellFrom(hs, symbol, quantity, price) ==
    LET new_quantity == hs[symbol].quantity - quantity
    IN  IF FullySold(new_quantity) THEN Del(hs, symbol)
        ELSE Put(hs, symbol, SoldHolding(hs[symbol], new_quantity, price))

\* the holdings map after the buy branch
BuyInto(hs, symbol, quantity, price) ==
    IF symbol \notin DOMAIN hs
    THEN Put(hs, symbol, NewHolding(quantity, price))
    ELSE Put(hs, symbol, BoughtHolding(hs[symbol], quantity, price))

\* realized profit/loss of a sell, (price - average_price) * quantity, as a
\* fraction; the code computes it and stores it nowhere
realized_pl(holding, quantity, price) ==
    Frac((price * holding.average_price[2] - holding.average_price[1]) * quantity,
         holding.average_price[2])

TradeRecord(symbol, action, quantity, price) ==
    [ symbol   |-> symbol,
      action   |-> action,
      quantity |-> quantity,
      price    |-> price,
      value    |-> quantity * price ]

\* the cash after a sell, with the proceeds left out
CashAfterSell_kept(cash, trade_value) == cash

\* self.holdings["cash"] = cash + trade_value
CashAfterSell(cash, trade_value) == cash + trade_value

\* the buy/sell/else branches of record_trade: whether the call goes on
\* (ok), the error it logs otherwise, and the document at the point where
\* the trade record is built
ApplyTrade(doc, symbol, action, quantity, price) ==
    LET trade_value == quantity * price
    IN  IF Lower(action) = "buy" THEN
            IF ~EnoughCash(trade_value, doc.cash)
            THEN [ok |-> FALSE, error |-> "Insufficient cash", doc |-> doc]
            ELSE [ok |-> TRUE, error |-> "",
                  doc |-> [doc EXCEPT
                            !.cash = doc.cash - trade_value,
                            !.holdings = BuyInto(doc.holdings, symbol, quantity, price)]]
        ELSE IF Lower(action) = "sell" THEN
            IF symbol \notin DOMAIN doc.holdings
            THEN [ok |-> FALSE, error |-> "not in holdings", doc |-> doc]
            ELSE IF ~EnoughQuantity(quantity, doc.holdings[symbol].quantity)
            THEN [ok |-> FALSE, error |-> "Insufficient quantity", doc |-> doc]
            ELSE [ok |-> TRUE, error |-> "",
                  doc |-> [doc EXCEPT
                            !.cash = CashAfterSell(doc.cash, trade_value),
                            !.holdings = SellFrom(doc.holdings, symbol, quantity, price)]]
        ELSE [ok |-> FALSE, error |-> "Invalid trade action", doc |-> doc]

\* self.holdings["trades"].append(trade_record), creating the list first
AppendTrade(doc, rec) ==
    [doc EXCEPT !.has_trades = TRUE, !.trades = Append(doc.trades, rec)]

\* the snapshot _record_portfolio_snapshot builds
Snapshot(doc) ==
    [ total_value |-> doc.total_value,
      cash        |-> doc.cash,
      holdings    |-> [s \in DOMAIN doc.holdings |->
                        [ quantity      |-> doc.holdings[s].quantity,
                          current_value |-> doc.holdings[s].current_value,
                          allocation    |-> GetAllocation(doc.holdings[s]) ]] ]

\* _record_portfolio_snapshot that overwrites the history
_record_portfolio_snapshot_overwrite(doc) ==
    [doc EXCEPT !.history = <<Snapshot(doc)>>]

_record_portfolio_snapshot(doc) ==
    [doc EXCEPT !.history = Append(doc.history, Snapshot(doc))]

\* record_trade that builds and appends the trade record before the branches
record_trade_early(doc, symbol, action, quantity, price, fetcher, prices) ==
    LET recorded == AppendTrade(doc, TradeRecord(symbol, action, quantity, price))
        t        == ApplyTrade(recorded, symbol, action, quantity, price)
        u        == update_prices(t.doc, fetcher, prices)
    IN  IF ~t.ok
        THEN [ok |-> FALSE, error |-> t.error, doc |-> t.doc,
              saved |-> FALSE, written |-> t.doc]
        ELSE [ok |-> TRUE, error |-> "", doc |-> _record_portfolio_snapshot(u.doc),
              saved |-> u.saved, written |-> u.doc]

\* record_trade as a whole, with the fetcher state and the snapshot its
\* update_prices() call gets: the result, the final document and the
\* document written to portfolio.json on the way, if any
record_trade(doc, symbol, action, quantity, price, fetcher, prices) ==
    LET t == ApplyTrade(doc, symbol, action, quantity, price)
    IN  IF ~t.ok
        THEN [ok |-> FALSE, error |-> t.error, doc |-> t.doc,
              saved |-> FALSE, written |-> t.doc]
        ELSE LET recorded == AppendTrade(t.doc, TradeRecord(symbol, action, quantity, price))
                 u        == update_prices(recorded, fetcher, prices)
             IN  [ ok      |-> TRUE,
                   error   |-> "",
                   doc     |-> _record_portfolio_snapshot(u.doc),
                   saved   |-> u.saved,
                   written |-> u.doc ]

\* no method of the Portfolio has been called yet
NoCall == [op |-> "init", ok |-> TRUE, error |-> ""]

\* portfolio.update_prices(price_fetcher) or portfolio.update_prices()
UpdatePrices ==
    \E given \in BOOLEAN, prices \in PriceSnapshots(DOMAIN holdings.holdings) :
        \E fetcher \in {given \/ price_fetcher} :
        \E r \in {update_prices(holdings, fetcher, prices)} :
            /\ price_fetcher' = fetcher
            /\ holdings' = r.doc
            /\ disk' = IF r.saved THEN save_portfolio(r.doc) ELSE disk
            /\ last' = [op |-> "update_prices", ok |-> r.ok, error |-> ""]
            /\ UNCHANGED ovars
            /\ UNCHANGED mvars

\* portfolio.record_trade(symbol, action, quantity, price)
RecordTrade ==
    /\ Len(holdings.trades) < MaxTrades
    /\ \E symbol \in TradedSymbols, action \in TradeActions,
          quantity \in Quantities, price \in Prices :
        \E prices \in PriceSnapshots(DOMAIN holdings.holdings \cup {symbol}) :
        \E r \in { record_trade(holdings, symbol, action, quantity, price,
                                 price_fetcher, prices) } :
                /\ holdings' = r.doc
                /\ disk' = IF r.saved THEN save_portfolio(r.written) ELSE disk
                /\ last' = [op |-> "record_trade", ok |-> r.ok, error |-> r.error]
                /\ UNCHANGED price_fetcher
                /\ UNCHANGED ovars
                /\ UNCHANGED mvars

NextPortfolio == UpdatePrices \/ RecordTrade

\* the quantities and prices a caller that checks nothing passes
GivenQuantities == {-1, 0, 1}
GivenPrices == {-1, 0, 1}

\* portfolio.record_trade(symbol, action, quantity, price) with arguments
\* inside and outside the documented domain
RecordGivenTrade ==
    /\ Len(holdings.trades) < MaxTrades
    /\ \E symbol \in TradedSymbols, action \in {"buy", "sell"},
          quantity \in GivenQuantities, price \in GivenPrices :
        \E prices \in PriceSnapshots(DOMAIN holdings.holdings \cup {symbol}) :
        \E r \in { record_trade(holdings, symbol, action, quantity, price,
                                 price_fetcher, prices) } :
                /\ holdings' = r.doc
                /\ disk' = IF r.saved THEN save_portfolio(r.written) ELSE disk
                /\ last' = [ op |-> "record_trade", ok |-> r.ok, error |-> r.error,
                             quantity |-> quantity, price |-> price ]
                /\ UNCHANGED price_fetcher
                /\ UNCHANGED ovars
                /\ UNCHANGED mvars

NextGiven == UpdatePrices \/ RecordGivenTrade

(***************************************************************************)
(* Portfolio.__init__ on a storage path without portfolio.json             *)
(***************************************************************************)
\* the values config portfolio.initial_capital is given
ConfiguredCapitals == {-1, 0, 1, InitialCapital}

\* Portfolio(config_path, storage_path): whether the constructor raised and
\* the document self.holdings it built from the configured initial_capital
Portfolio(initial_capital) ==
    [ raised |-> FALSE,
      doc    |-> [ _initialize_portfolio EXCEPT
                     !.initial_capital = initial_capital,
                     !.cash            = initial_capital,
                     !.total_value     = initial_capital,
                     !.history         = << [ total_value |-> initial_capital,
                                              cash        |-> initial_capital,
                                              holdings    |-> EmptyMap ] >> ] ]

\* a Portfolio is constructed on a new, empty storage path
NewPortfolio ==
    \E initial_capital \in ConfiguredCapitals :
        \E p \in {Portfolio(initial_capital)} :
            /\ holdings' = IF p.raised THEN holdings ELSE p.doc
            /\ disk' = NoFile
            /\ price_fetcher' = FALSE
            /\ last' = [ op |-> "__init__", initial_capital |-> initial_capital,
                         ok |-> ~p.raised, error |-> "" ]
            /\ UNCHANGED ovars
            /\ UNCHANGED mvars

NextLedger == NewPortfolio \/ UpdatePrices \/ RecordTrade

(***************************************************************************)
(* Portfolio: the queries                                                  *)
(***************************************************************************)
\* the behaviours in which the queries are called record fewer trades than
\* this
MaxReadTrades == 1

\* get_current_allocation(symbol)
get_current_allocation(doc, symbol) ==
    IF symbol = "cash"
    THEN IF doc.total_value > 0 THEN Frac(doc.cash, doc.total_value) ELSE Zero
    ELSE IF symbol \notin DOMAIN doc.holdings THEN Zero
    ELSE GetAllocation(doc.holdings[symbol])

\* the summary get_portfolio_summary builds from the document; the assets
\* list, sorted by allocation, is kept as a map from the symbol
Summary(doc) ==
    [ total_value       |-> doc.total_value,
      initial_capital   |-> doc.initial_capital,
      cash              |-> doc.cash,
      invested_value    |-> doc.total_value - doc.cash,
      total_profit_loss |-> doc.total_value - doc.initial_capital,
      total_profit_loss_percent |->
          IF doc.initial_capital > 0
          THEN Frac((doc.total_value - doc.initial_capital) * 100, doc.initial_capital)
          ELSE Zero,
      asset_count       |-> Cardinality(DOMAIN doc.holdings),
      cash_allocation   |-> get_current_allocation(doc, "cash"),
      assets            |->
          [ s \in DOMAIN doc.holdings |->
              [ quantity      |-> doc.holdings[s].quantity,
                current_price |-> doc.holdings[s].current_price,
                current_value |-> doc.holdings[s].current_value,
                allocation    |-> GetAllocation(doc.holdings[s]),
                profit_loss   |-> doc.holdings[s].profit_loss,
                profit_loss_percent |-> doc.holdings[s].profit_loss_percent ] ] ]

\* get_portfolio_summary: update_prices() with the fetcher of the portfolio,
\* then the summary of the document
get_portfolio_summary(doc, fetcher, prices) ==
    LET updated == update_prices(doc, fetcher, prices)
    IN  [ doc |-> updated.doc, saved |-> updated.saved,
          summary |-> Summary(updated.doc) ]

\* portfolio.get_portfolio_summary(); "repeat" tells that the call before it
\* was get_portfolio_summary too and that the fetcher gave the same prices
GetPortfolioSummary ==
    \E prices \in IF price_fetcher THEN PriceSnapshots(DOMAIN holdings.holdings)
                   ELSE {EmptyMap} :
       \E r \in { get_portfolio_summary(holdings, price_fetcher, prices) } :
            /\ holdings' = r.doc
            /\ disk' = IF r.saved THEN save_portfolio(r.doc) ELSE disk
            /\ last' = [ op |-> "get_portfolio_summary", prices |-> prices,
                         repeat |-> /\ last.op = "get_portfolio_summary"
                                    /\ last.prices = prices,
                         summary |-> r.summary ]
            /\ UNCHANGED price_fetcher
            /\ UNCHANGED ovars
            /\ UNCHANGED mvars

\* the symbol arguments of get_current_allocation
AllocationSymbols == {"cash"} \cup Symbols

\* portfolio.get_current_allocation(symbol)
GetCurrentAllocation ==
    \E symbol \in AllocationSymbols :
        /\ last' = [ op |-> "get_current_allocation", symbol |-> symbol,
                     value |-> get_current_allocation(holdings, symbol) ]
        /\ UNCHANGED <<holdings, price_fetcher, disk>>
        /\ UNCHANGED ovars
        /\ UNCHANGED mvars

\* config portfolio.max_allocation_per_asset, default 0.15
max_allocation_per_asset == <<3, 20>>

\* config portfolio.max_cash_allocation, default 0.3
max_cash_allocation == <<3, 10>>

\* (a - b) * total_value for fractions a and b
ExcessValue(a, b, total_value) ==
    Frac((a[1] * b[2] - b[1] * a[2]) * total_value, a[2] * b[2])

\* the "actions" of the recommendations: REDUCE for every asset above
\* max_allocation_per_asset, DEPLOY for cash above max_cash_allocation
RecommendedActions(doc) ==
    LET allocations == AllocationsDict(doc)
    IN  IF ~allocations.exists THEN {}
        ELSE { [ symbol             |-> s,
                 action             |-> "REDUCE",
                 current_allocation |-> allocations.assets[s],
                 target_allocation  |-> max_allocation_per_asset,
                 value_to_adjust    |-> ExcessValue(allocations.assets[s],
                                            max_allocation_per_asset, doc.total_value) ] :
                 s \in { t \in DOMAIN allocations.assets :
                            ~FracLeq(allocations.assets[t], max_allocation_per_asset) } }
             \cup
             IF FracLeq(allocations.cash, max_cash_allocation) THEN {}
             ELSE { [ symbol             |-> "cash",
                      action             |-> "DEPLOY",
                      current_allocation |-> allocations.cash,
                      target_allocation  |-> max_cash_allocation,
                      value_to_adjust    |-> ExcessValue(allocations.cash,
                                                 max_cash_allocation, doc.total_value) ] }

\* get_allocation_recommendations: the document it leaves and what it returns
get_allocation_recommendations(doc) ==
    [ doc             |-> calculate_allocations(doc),
      saved           |-> FALSE,
      recommendations |-> [ total_value |-> doc.total_value,
                            cash        |-> doc.cash,
                            actions     |-> RecommendedActions(doc) ] ]

\* portfolio.get_allocation_recommendations()
GetAllocationRecommendations ==
    \E r \in {get_allocation_recommendations(holdings)} :
        /\ holdings' = r.doc
        /\ disk' = IF r.saved THEN save_portfolio(r.doc) ELSE disk
        /\ last' = [ op |-> "get_allocation_recommendations",
                     recommendations |-> r.recommendations ]
        /\ UNCHANGED price_fetcher
        /\ UNCHANGED ovars
        /\ UNCHANGED mvars

\* record_trade in a behaviour in which the queries are called
TradeBeforeQuery ==
    /\ Len(holdings.trades) < MaxReadTrades
    /\ RecordTrade

NextQueries ==
    \/ UpdatePrices
    \/ TradeBeforeQuery
    \/ GetPortfolioSummary
    \/ GetCurrentAllocation
    \/ GetAllocationRecommendations

(***************************************************************************)
(* OrderManager: the orders a caller submits                               *)
(***************************************************************************)
\* the submit_order calls of one behaviour place orders while the seconds
\* slept and the exchange calls made are together fewer than this
MaxPlaced == 1

\* a key that the order dictionary does not have
Missing == [k |-> "missing", v |-> 0]
\* a number, a string that is no number, None
Num(v) == [k |-> "num", v |-> v]
NotANumber == [k |-> "str", v |-> 0]
Null == [k |-> "null", v |-> 0]

\* the values of the amount and price keys
Amounts == {Missing, Num(0), Num(1), NotANumber, Null}

\* the assets of assets.yaml: BTC is traded on kucoin, AAPL names no exchange
ConfiguredAssets == {"BTC", "AAPL"}
AssetExchange(symbol) == IF symbol = "BTC" THEN "kucoin" ELSE ""

\* the values of the symbol, type and side keys; "<missing>" is an absent key
SymbolValues == {"BTC", "AAPL", "XXX", "<missing>"}
TypeValues == {"market", "limit", "stop", "<missing>"}
SideValues == {"buy", "sell", "hold", "<missing>"}

\* well-formed orders for BTC: market buy, market sell, limit buy
MarketBuy ==
    [symbol |-> "BTC", type |-> "market", side |-> "buy",
     amount |-> Num(1), price |-> Missing]
MarketSell == [MarketBuy EXCEPT !.side = "sell"]
LimitBuy == [MarketBuy EXCEPT !.type = "limit", !.price = Num(1)]

\* order g with one key changed or dropped
Variants(g) ==
    { [g EXCEPT !.symbol = x] : x \in SymbolValues }
    \cup { [g EXCEPT !.type = x] : x \in TypeValues }
    \cup { [g EXCEPT !.side = x] : x \in SideValues }
    \cup { [g EXCEPT !.amount = x] : x \in Amounts }
    \cup { [g EXCEPT !.price = x] : x \in Amounts }

\* the orders a caller submits: the well-formed ones, the limit order with
\* one key changed or dropped, and two orders with several faults
Orders ==
    {MarketBuy, MarketSell} \cup Variants(LimitBuy)
    \cup { [symbol |-> "BTC", type |-> "stop", side |-> "hold",
            amount |-> Num(0), price |-> Missing],
           [symbol |-> "<missing>", type |-> "<missing>", side |-> "buy",
            amount |-> Num(1), price |-> Missing] }

\* _get_asset_info: the asset's record, or None
_get_asset_info(symbol) ==
    IF symbol \in ConfiguredAssets
    THEN [found |-> TRUE, exchange |-> AssetExchange(symbol)]
    ELSE [found |-> FALSE, exchange |-> ""]

\* float(x): the number, ValueError for a string that is no number,
\* TypeError for None
Float(x) ==
    IF x.k = "num" THEN [raised |-> "", v |-> x.v]
    ELSE IF x.k = "str" THEN [raised |-> "ValueError", v |-> 0]
    ELSE [raised |-> "TypeError", v |-> 0]

\* the "Missing required field" errors, in the order of required_fields
MissingFieldErrors(order) ==
    (IF order.symbol = "<missing>" THEN <<"Missing required field: symbol">> ELSE <<>>)
    \o (IF order.type = "<missing>" THEN <<"Missing required field: type">> ELSE <<>>)
    \o (IF order.side = "<missing>" THEN <<"Missing required field: side">> ELSE <<>>)
    \o (IF order.amount = Missing THEN <<"Missing required field: amount">> ELSE <<>>)

TypeErrors(order) ==
    IF order.type \notin {"market", "limit"} THEN <<"Invalid order type">> ELSE <<>>

SideErrors(order) ==
    IF order.side \notin {"buy", "sell"} THEN <<"Invalid order side">> ELSE <<>>

\* the try block around float(order['amount'])
AmountErrors(order) ==
    IF Float(order.amount).raised = "ValueError"
    THEN <<"Invalid amount: must be a number">>
    ELSE IF Float(order.amount).v <= 0
    THEN <<"Invalid amount: must be greater than 0">>
    ELSE <<>>

\* the limit-order price checks
PriceErrors(order) ==
    IF order.type = "limit" /\ order.price = Missing
    THEN <<"Price is required for limit orders">>
    ELSE IF order.type = "limit"
    THEN IF Float(order.price).raised = "ValueError"
         THEN <<"Invalid price: must be a number">>
         ELSE IF Float(order.price).v <= 0
         THEN <<"Invalid price: must be greater than 0">>
         ELSE <<>>
    ELSE <<>>

\* _validate_order: {"valid", "errors"}, or the exception that leaves it (only
\* ValueError is caught around the two float() calls)
_validate_order(order) ==
    IF MissingFieldErrors(order) # <<>>
    THEN [raised |-> "", valid |-> FALSE, errors |-> MissingFieldErrors(order)]
    ELSE IF ~_get_asset_info(order.symbol).found
    THEN [raised |-> "", valid |-> FALSE, errors |-> <<"Asset not found">>]
    ELSE IF Float(order.amount).raised = "TypeError"
    THEN [raised |-> "TypeError", valid |-> FALSE, errors |-> <<>>]
    ELSE IF order.type = "limit" /\ order.price # Missing
            /\ Float(order.price).raised = "TypeError"
    THEN [raised |-> "TypeError", valid |-> FALSE, errors |-> <<>>]
    ELSE LET errors == TypeErrors(order) \o SideErrors(order)
                        \o AmountErrors(order) \o PriceErrors(order)
         IN  [raised |-> "", valid |-> errors = <<>>, errors |-> errors]

(***************************************************************************)
(* OrderManager._place_kucoin_order and _place_dummy_kucoin_order          *)
(***************************************************************************)
\* what the live exchange path meets: the kucoin client cannot be built
\* ("unavailable": the import or the constructor raises), the order call
\* raises ("raise") or returns ("ok"); whether _get_current_price returns a
\* price; whether the response carries an orderId
Envs == [ client : {"ok", "raise", "unavailable"}, price : BOOLEAN, has_id : BOOLEAN ]

\* the environments that differ for the order: the price is fetched only for
\* a market order that is no buy and only once the client exists, the
\* response is read only when the order call returns
EnvsFor(order) ==
    { env \in Envs :
        /\ (env.client # "ok") => env.has_id
        /\ (env.client = "unavailable") => env.price
        /\ ~(order.type = "market" /\ order.side # "buy") => env.price }

\* the environment of a call that never enters the live exchange path
NoEnv == [client |-> "ok", price |-> TRUE, has_id |-> TRUE]

NoId == <<"", 0>>

\* _place_dummy_kucoin_order at time t: sleeps one second, then builds the
\* id "dummy-order-<int(time.time())>" and a result with status success
_place_dummy_kucoin_order(order, t) ==
    [ order_id  |-> <<"dummy-order", t + 1>>,
      status    |-> "success",
      reason    |-> "",
      simulated |-> TRUE,
      timestamp |-> t + 1 ]

\* what the except branch of _place_kucoin_order returns when the live call
\* failed with the given reason
OnLiveFailure(order, t, reason) == _place_dummy_kucoin_order(order, t)

\* the try block of _place_kucoin_order: "" when it reaches the return, else
\* the exception raised in it
LiveFailure(order, env) ==
    IF env.client = "unavailable" THEN "ImportError"
    ELSE IF order.type = "market" /\ order.side # "buy" /\ ~env.price
    THEN "Could not determine current price for size calculation"
    ELSE IF env.client = "raise" THEN "KucoinAPIException"
    ELSE ""

\* the try block called client.create_market_order or create_limit_order
Contacted(order, env) ==
    /\ env.client # "unavailable"
    /\ ~(order.type = "market" /\ order.side # "buy" /\ ~env.price)

\* the result of _place_kucoin_order, whether the run used the simulated
\* implementation on request (test_mode) and whether it contacted the exchange
_place_kucoin_order(order, tm, env, t, calls) ==
    IF tm
    THEN [ result |-> _place_dummy_kucoin_order(order, t),
           contacted |-> FALSE, live_failure |-> "" ]
    ELSE IF LiveFailure(order, env) # ""
    THEN [ result |-> OnLiveFailure(order, t, LiveFailure(order, env)),
           contacted |-> Contacted(order, env),
           live_failure |-> LiveFailure(order, env) ]
    ELSE [ result |-> [ order_id  |-> IF env.has_id THEN <<"live", calls + 1>> ELSE NoId,
                        status    |-> "success",
                        reason    |-> "",
                        simulated |-> FALSE,
                        timestamp |-> t ],
           contacted |-> TRUE, live_failure |-> "" ]

(***************************************************************************)
(* OrderManager.submit_order                                               *)
(***************************************************************************)
\* the confirm argument: None, True or False
Confirms == {"None", "True", "False"}

\* require_confirmation with the confirm argument ignored
require_confirmation_global(confirm, setting) == setting

\* require_confirmation = self.trade_confirmation, overridden by confirm when
\* confirm is not None
require_confirmation(confirm, setting) ==
    IF confirm # "None" THEN confirm = "True" ELSE setting

\* what a submit_order call that places nothing returns
Returned(status, reason, errors) ==
    [ status |-> status, reason |-> reason, errors |-> errors,
      order_id |-> NoId, simulated |-> FALSE, timestamp |-> 0,
      contacted |-> FALSE, live_failure |-> "", saved |-> FALSE ]

\* the steps of submit_order after the validation has passed
SubmitValidated(order, confirm, tm, setting, env, t, calls) ==
    IF require_confirmation(confirm, setting)
    THEN Returned("pending_confirmation", "", <<>>)
    ELSE IF _get_asset_info(order.symbol).exchange # "kucoin"
    THEN Returned("error", "Unsupported exchange", <<>>)
    ELSE LET p == _place_kucoin_order(order, tm, env, t, calls)
         IN  [ status |-> p.result.status, reason |-> p.result.reason,
               errors |-> <<>>, order_id |-> p.result.order_id,
               simulated |-> p.result.simulated, timestamp |-> p.result.timestamp,
               contacted |-> p.contacted, live_failure |-> p.live_failure,
               saved |-> TRUE ]

\* submit_order with the confirmation gate before the validation
submit_order_gate_first(order, confirm, tm, setting, env, t, calls) ==
    IF require_confirmation(confirm, setting)
    THEN Returned("pending_confirmation", "", <<>>)
    ELSE IF _validate_order(order).raised # ""
    THEN Returned("raised", _validate_order(order).raised, <<>>)
    ELSE IF ~_validate_order(order).valid
    THEN Returned("error", "Validation failed", _validate_order(order).errors)
    ELSE SubmitValidated(order, confirm, tm, setting, env, t, calls)

\* submit_order: what it returns ("raised" when an exception leaves it) and
\* what it did
submit_order(order, confirm, tm, setting, env, t, calls) ==
    LET validation == _validate_order(order)
    IN  IF validation.raised # ""
        THEN Returned("raised", validation.raised, <<>>)
        ELSE IF ~validation.valid
        THEN Returned("error", "Validation failed", validation.errors)
        ELSE SubmitValidated(order, confirm, tm, setting, env, t, calls)

\* the document _save_order writes for a result
OrderDocument(order, r) ==
    [ order_id |-> r.order_id, symbol |-> order.symbol, type |-> order.type,
      side |-> order.side, status |-> r.status, timestamp |-> r.timestamp ]

NoResult ==
    [ op |-> "init", status |-> "", reason |-> "", errors |-> <<>>,
      order_id |-> NoId, simulated |-> FALSE, contacted |-> FALSE,
      live_failure |-> "", saved |-> FALSE,
      validation |-> "", confirm |-> "None" ]

\* the outcome of the validator on the order: valid, invalid or raised
Validation(order) ==
    IF _validate_order(order).raised # "" THEN "raised"
    ELSE IF _validate_order(order).valid THEN "valid" ELSE "invalid"

\* the call enters the try block of _place_kucoin_order
EntersLivePath(order, confirm) ==
    /\ ~test_mode
    /\ Validation(order) = "valid"
    /\ ~require_confirmation(confirm, trade_confirmation)
    /\ _get_asset_info(order.symbol).exchange = "kucoin"

\* order_manager.submit_order(order, confirm)
SubmitOrder ==
    \E order \in Orders, confirm \in Confirms :
       \E env \in IF EntersLivePath(order, confirm) THEN EnvsFor(order) ELSE {NoEnv} :
       \E r \in { submit_order(order, confirm, test_mode, trade_confirmation,
                                env, now, exchange_calls) } :
            /\ r.saved => now + exchange_calls < MaxPlaced
            /\ exchange_calls' = IF r.contacted THEN exchange_calls + 1
                                 ELSE exchange_calls
            /\ now' = IF r.simulated THEN now + 1 ELSE now
            /\ order_files' = IF r.saved
                              THEN Put(order_files, r.order_id, OrderDocument(order, r))
                              ELSE order_files
            /\ result' = [ op |-> "submit_order", status |-> r.status,
                           reason |-> r.reason, errors |-> r.errors,
                           order_id |-> r.order_id, simulated |-> r.simulated,
                           contacted |-> r.contacted,
                           live_failure |-> r.live_failure, saved |-> r.saved,
                           validation |-> Validation(order), confirm |-> confirm ]
            /\ UNCHANGED <<test_mode, trade_confirmation, cancel_files>>
            /\ UNCHANGED pvars
            /\ UNCHANGED mvars

NextOrders == SubmitOrder

(***************************************************************************)
(* OrderManager._validate_order on its own                                 *)
(***************************************************************************)
\* every order over the values of the five keys
AllOrders ==
    [ symbol : SymbolValues, type : TypeValues, side : SideValues,
      amount : Amounts, price : Amounts ]

\* self._validate_order(order)
ValidateOrder ==
    \E order \in AllOrders :
       \E validation \in { _validate_order(order) } :
            /\ result' = [ op |-> "_validate_order", order |-> order,
                           raised |-> validation.raised,
                           valid |-> validation.valid,
                           errors |-> validation.errors ]
            /\ UNCHANGED <<test_mode, trade_confirmation, order_files,
                           exchange_calls, now, cancel_files>>
            /\ UNCHANGED pvars
            /\ UNCHANGED mvars

(***************************************************************************)
(* OrderManager.create_order_from_signal                                   *)
(***************************************************************************)
\* self.max_allocation: system.max_allocation_per_asset, 0.20 by default
max_allocation == <<1, 5>>

\* the fixed amount of USD of an order
base_amount == 1000

\* the product of two fractions
FracMul(a, b) == Frac(a[1] * b[1], a[2] * b[2])

\* the signals of the analysis engine; "<missing>" is an absent key
Signals ==
    [ symbol     : {"BTC", "AAPL", "XXX", "<missing>"},
      action     : {"BUY", "SELL", "HOLD", "NONE", "buy", "<missing>"},
      confidence : {"HIGH", "MEDIUM", "LOW", "<missing>"} ]

\* the allocation argument: None or a share of the portfolio
Allocations == {NoAllocation, <<0, 1>>, <<1, 10>>, <<1, 1>>}

\* the allocation of every confidence is max_allocation
DefaultAllocation_flat(confidence) == max_allocation

\* the allocation derived from signal.get('confidence', 'LOW')
DefaultAllocation(confidence) ==
    IF confidence = "HIGH" THEN max_allocation
    ELSE IF confidence = "MEDIUM" THEN FracMul(max_allocation, <<3, 5>>)
    ELSE FracMul(max_allocation, <<3, 10>>)

\* the None that create_order_from_signal returns
NoOrder == [ none |-> TRUE, symbol |-> "", type |-> "", side |-> "", amount |-> Zero ]

\* create_order_from_signal(signal, allocation): the order, or None
create_order_from_signal(signal, allocation) ==
    IF signal.symbol = "<missing>" \/ signal.action = "NONE" \/ signal.action = "HOLD"
    THEN NoOrder
    ELSE IF ~_get_asset_info(signal.symbol).found
    THEN NoOrder
    ELSE [ none   |-> FALSE,
           symbol |-> signal.symbol,
           type   |-> "market",
           side   |-> IF signal.action = "BUY" THEN "buy" ELSE "sell",
           amount |-> FracMul(<<base_amount, 1>>,
                              IF allocation = NoAllocation
                              THEN DefaultAllocation(signal.confidence)
                              ELSE allocation) ]

\* order_manager.create_order_from_signal(signal, allocation)
CreateOrderFromSignal ==
    \E signal \in Signals, allocation \in Allocations :
        /\ result' = [ op |-> "create_order_from_signal", signal |-> signal,
                       allocation |-> allocation,
                       order |-> create_order_from_signal(signal, allocation) ]
        /\ UNCHANGED <<test_mode, trade_confirmation, order_files,
                       exchange_calls, now, cancel_files>>
        /\ UNCHANGED pvars
        /\ UNCHANGED mvars

(***************************************************************************)
(* OrderManager: the order store (the files of output_path)                *)
(***************************************************************************)
\* the calls of one behaviour of the order store place orders and contact the
\* exchange while the seconds slept and the exchange calls made are together
\* fewer than this
MaxStored == 2

\* the well-formed orders submitted to fill the store
PlacedOrders == {MarketBuy, MarketSell}

\* order_manager.submit_order(order, confirm=False) on a well-formed order
PlaceOrder ==
    \E order \in PlacedOrders :
       \E env \in IF EntersLivePath(order, "False") THEN EnvsFor(order) ELSE {NoEnv} :
       \E r \in { submit_order(order, "False", test_mode, trade_confirmation,
                                env, now, exchange_calls) } :
            /\ now + exchange_calls < MaxStored
            /\ exchange_calls' = IF r.contacted THEN exchange_calls + 1
                                 ELSE exchange_calls
            /\ now' = IF r.simulated THEN now + 1 ELSE now
            /\ order_files' = IF r.saved
                              THEN Put(order_files, r.order_id, OrderDocument(order, r))
                              ELSE order_files
            /\ result' = [ op |-> "submit_order", status |-> r.status,
                           reason |-> r.reason, errors |-> r.errors,
                           order_id |-> r.order_id, simulated |-> r.simulated,
                           contacted |-> r.contacted,
                           live_failure |-> r.live_failure, saved |-> r.saved,
                           validation |-> Validation(order), confirm |-> "False" ]
            /\ UNCHANGED <<test_mode, trade_confirmation, cancel_files>>
            /\ UNCHANGED pvars
            /\ UNCHANGED mvars

(***************************************************************************)
(* OrderManager.cancel_order                                               *)
(***************************************************************************)
\* the order ids a caller passes to cancel_order: the ids of the store, ids
\* the exchange or the simulated implementation may give, the empty id and
\* an id nobody gave.  No id contains "_", so "order_<id>_" is a prefix of a
\* file name of the store only for the id that file was written under.
CancelIds ==
    DOMAIN order_files
        \cup {NoId, <<"live", 1>>, <<"dummy-order", 1>>, <<"unknown", 0>>}

\* order_data.get('exchange', ''): every result submit_order saves names kucoin
ExchangeOf(doc) == IF "exchange" \in DOMAIN doc THEN doc.exchange ELSE "kucoin"

\* what cancel_order meets: the kucoin client cannot be built ("unavailable"),
\* client.cancel_order raises ("raise") or returns ("ok")
CancelEnvs == {"ok", "raise", "unavailable"}

\* _find_order that returns a file of the store whatever the id
_find_order_any(files, order_id) ==
    IF DOMAIN files # {}
    THEN [found |-> TRUE, doc |-> files[CHOOSE id \in DOMAIN files : TRUE]]
    ELSE [found |-> FALSE, doc |-> <<>>]

\* _find_order: the document of the file order_<order_id>_*.json, or None
_find_order(files, order_id) ==
    IF order_id \in DOMAIN files
    THEN [found |-> TRUE, doc |-> files[order_id]]
    ELSE [found |-> FALSE, doc |-> <<>>]

\* what cancel_order returns and does: the result, whether client.cancel_order
\* was called and whether _save_cancellation wrote the result
cancel_order(files, order_id, client, t) ==
    LET order_data == _find_order(files, order_id)
    IN  IF ~order_data.found
        THEN [ status |-> "error", reason |-> "not found",
               contacted |-> FALSE, saved |-> FALSE, timestamp |-> 0 ]
        ELSE IF ExchangeOf(order_data.doc) # "kucoin"
        THEN [ status |-> "error", reason |-> "Unsupported exchange",
               contacted |-> FALSE, saved |-> FALSE, timestamp |-> 0 ]
        ELSE IF client = "unavailable"
        THEN [ status |-> "error", reason |-> "ImportError",
               contacted |-> FALSE, saved |-> FALSE, timestamp |-> t ]
        ELSE IF client = "raise"
        THEN [ status |-> "error", reason |-> "KucoinAPIException",
               contacted |-> TRUE, saved |-> FALSE, timestamp |-> t ]
        ELSE [ status |-> "success", reason |-> "",
               contacted |-> TRUE, saved |-> TRUE, timestamp |-> t ]

\* the document _save_cancellation writes
CancellationDocument(order_id, r) ==
    [ order_id |-> order_id, status |-> r.status, timestamp |-> r.timestamp ]

\* order_manager.cancel_order(order_id)
CancelOrder ==
    \E order_id \in CancelIds :
       \E client \in IF _find_order(order_files, order_id).found
                     THEN CancelEnvs ELSE {"ok"} :
       \E r \in { cancel_order(order_files, order_id, client, now) } :
            /\ r.contacted => now + exchange_calls < MaxStored
            /\ exchange_calls' = IF r.contacted THEN exchange_calls + 1
                                 ELSE exchange_calls
            /\ cancel_files' = IF r.saved
                               THEN Put(cancel_files, order_id,
                                        CancellationDocument(order_id, r))
                               ELSE cancel_files
            /\ result' = [ op |-> "cancel_order", status |-> r.status,
                           reason |-> r.reason, order_id |-> order_id,
                           contacted |-> r.contacted, saved |-> r.saved ]
            /\ UNCHANGED <<test_mode, trade_confirmation, order_files, now>>
            /\ UNCHANGED pvars
            /\ UNCHANGED mvars

(***************************************************************************)
(* OrderManager.cancel_all_orders                                          *)
(***************************************************************************)
\* the symbol arguments of cancel_all_orders, "" for None
CancelAllSymbols == {"", "BTC"}

\* what cancel_all_orders returns and does with the kucoin client it builds:
\* whether client.cancel_all_orders was called and whether
\* _save_cancellation wrote the result
cancel_all_orders(symbol, client, t) ==
    IF client = "unavailable"
    THEN [ status |-> "error", reason |-> "ImportError",
           contacted |-> FALSE, saved |-> FALSE, timestamp |-> t ]
    ELSE IF client = "raise"
    THEN [ status |-> "error", reason |-> "KucoinAPIException",
           contacted |-> TRUE, saved |-> FALSE, timestamp |-> t ]
    ELSE [ status |-> "success", reason |-> "",
           contacted |-> TRUE, saved |-> TRUE, timestamp |-> t ]

\* the result has no order_id, so _save_cancellation names the file after
\* str(int(time.time()))
CancelAllFile(t) == <<"time", t>>

\* order_manager.cancel_all_orders(symbol)
CancelAllOrders ==
    \E symbol \in CancelAllSymbols, client \in CancelEnvs :
       \E r \in { cancel_all_orders(symbol, client, now) } :
            /\ now + exchange_calls < MaxStored
            /\ exchange_calls' = IF r.contacted THEN exchange_calls + 1
                                 ELSE exchange_calls
            /\ cancel_files' = IF r.saved
                               THEN Put(cancel_files, CancelAllFile(now),
                                        [ status |-> r.status, symbol |-> symbol,
                                          timestamp |-> r.timestamp ])
                               ELSE cancel_files
            /\ result' = [ op |-> "cancel_all_orders", status |-> r.status,
                           reason |-> r.reason, symbol |-> symbol,
                           contacted |-> r.contacted, saved |-> r.saved ]
            /\ UNCHANGED <<test_mode, trade_confirmation, order_files, now>>
            /\ UNCHANGED pvars
            /\ UNCHANGED mvars

(***************************************************************************)
(* OrderManager.get_order_history                                          *)
(***************************************************************************)
\* the seconds of a day
SecondsPerDay == 86400

\* the days_back arguments
DaysBack == {0, 1, 2}

\* what the "timestamp" key of a stored document holds: an ISO string
\* ("iso", the time is the timestamp field), a string that is no ISO
\* date-time ("text"), a value that is no string ("number": a JSON number or
\* null), or nothing ("missing": the key is absent).  The results that
\* submit_order saves carry datetime.now().isoformat().
TimestampKind(doc) ==
    IF "timestamp_kind" \in DOMAIN doc THEN doc.timestamp_kind ELSE "iso"

\* an order document that was in output_path before the manager started
ForeignDocument(id, ts, kind, exchange) ==
    [ order_id |-> id, symbol |-> "BTC", type |-> "market", side |-> "buy",
      status |-> "success", timestamp |-> ts, timestamp_kind |-> kind,
      exchange |-> exchange ]

\* a store with documents of two days and of one day before the start, and
\* documents without a readable timestamp
ForeignStore ==
    [ id \in { <<"old", n>> : n \in 1..5 } |->
        CASE id[2] = 1 -> ForeignDocument(id, 0 - 2 * SecondsPerDay, "iso", "kucoin")
          [] id[2] = 2 -> ForeignDocument(id, 0 - SecondsPerDay, "iso", "kucoin")
          [] id[2] = 3 -> ForeignDocument(id, 0, "missing", "binance")
          [] id[2] = 4 -> ForeignDocument(id, 0, "text", "kucoin")
          [] OTHER     -> ForeignDocument(id, 0, "number", "kucoin") ]

\* os.listdir(self.output_path): the names of the order and cancellation files
ListDir(orders, cancellations) ==
    { <<"order", id>> : id \in DOMAIN orders }
        \cup { <<"cancel", id>> : id \in DOMAIN cancellations }

\* the loop body of get_order_history on one order document: it is appended
\* when its time is at or after the cutoff and when reading its timestamp
\* raises KeyError or ValueError; for a timestamp that is no string
\* .replace raises AttributeError, the outer except logs it and the
\* document is left out
Appended(doc, cutoff_date) ==
    CASE TimestampKind(doc) = "iso"     -> doc.timestamp >= cutoff_date
      [] TimestampKind(doc) = "missing" -> TRUE
      [] TimestampKind(doc) = "text"    -> TRUE
      [] OTHER                          -> FALSE

\* the sort key x.get('timestamp', '') as a pair that orders as the strings
\* do: '' first, ISO strings by their time, then text (letters follow
\* digits)
SortKey(doc) ==
    CASE TimestampKind(doc) = "missing" -> <<0, 0>>
      [] TimestampKind(doc) = "iso"     -> <<1, doc.timestamp>>
      [] OTHER                          -> <<2, 0>>

KeyLeq(a, b) == a[1] < b[1] \/ (a[1] = b[1] /\ a[2] <= b[2])

RECURSIVE SortedNewestFirst(_, _)
\* orders.sort(key=..., reverse=True) of the documents named by S: every
\* order of them by descending key (the sort is stable, so documents with
\* equal keys stay in the order of the directory listing, which is any order)
SortedNewestFirst(orders, S) ==
    IF S = {} THEN { <<>> }
    ELSE UNION { { <<x>> \o rest : rest \in SortedNewestFirst(orders, S \ {x}) } :
                 x \in { y \in S : \A z \in S :
                            KeyLeq(SortKey(orders[z[2]]), SortKey(orders[y[2]])) } }

\* get_order_history(days_back) at time t: the lists it may return, each a
\* sequence of the names of the files whose documents it holds
get_order_history(orders, cancellations, days_back, t) ==
    LET cutoff_date == t - days_back * SecondsPerDay
    IN  SortedNewestFirst(orders,
            { f \in ListDir(orders, cancellations) :
                /\ f[1] = "order"
                /\ Appended(orders[f[2]], cutoff_date) })

\* order_manager.get_order_history(days_back)
GetOrderHistory ==
    \E days_back \in DaysBack :
       \E history \in get_order_history(order_files, cancel_files, days_back, now) :
            /\ result' = [ op |-> "get_order_history", days_back |-> days_back,
                           orders |-> history ]
            /\ UNCHANGED <<test_mode, trade_confirmation, order_files,
                           exchange_calls, now, cancel_files>>
            /\ UNCHANGED pvars
            /\ UNCHANGED mvars

NextStore == PlaceOrder \/ CancelOrder \/ CancelAllOrders \/ GetOrderHistory

(***************************************************************************)
(* AIPortfolioManager.execute_orders and generate_orders                   *)
(***************************************************************************)
\* the longest batch of orders or analyses
MaxBatch == 2

\* the orders of a batch: well-formed orders, an order whose amount is None
\* (the validator raises TypeError on it) and an order without a side key
\* (the log line of execute_orders raises KeyError on it)
BatchOrders ==
    { MarketBuy, MarketSell,
      [MarketBuy EXCEPT !.amount = Null],
      [MarketBuy EXCEPT !.side = "<missing>"] }

\* every sequence over S of at most MaxBatch elements
Batches(S) == UNION { [1..n -> S] : n \in 0..MaxBatch }

\* the log line before submit_order reads order['side'], order['amount'] and
\* order['symbol']
LogLineRaises(order) ==
    order.side = "<missing>" \/ order.amount = Missing \/ order.symbol = "<missing>"

\* the state execute_orders starts from
BatchStart(files, t, calls) ==
    [ files |-> files, now |-> t, calls |-> calls, results |-> <<>>,
      submitted |-> {}, contacted |-> FALSE ]

RECURSIVE execute_orders(_, _, _, _, _, _, _)
\* the loop of execute_orders from item i on: every item runs in its own
\* try block, an exception is logged and the loop goes on.  st carries the
\* order files, the clock, the exchange calls, the results appended so far
\* and the items submit_order was called for
execute_orders(orders, envs, confirm, tm, setting, i, st) ==
    IF i > Len(orders) THEN st
    ELSE IF LogLineRaises(orders[i])
    THEN execute_orders(orders, envs, confirm, tm, setting, i + 1, st)
    ELSE LET r == submit_order(orders[i], confirm, tm, setting, envs[i],
                               st.now, st.calls)
         IN  execute_orders(orders, envs, confirm, tm, setting, i + 1,
                [ files     |-> IF r.saved
                                THEN Put(st.files, r.order_id,
                                         OrderDocument(orders[i], r))
                                ELSE st.files,
                  now       |-> IF r.simulated THEN st.now + 1 ELSE st.now,
                  calls     |-> IF r.contacted THEN st.calls + 1 ELSE st.calls,
                  results   |-> IF r.status = "raised" THEN st.results
                                ELSE Append(st.results, [item |-> i, status |-> r.status]),
                  submitted |-> st.submitted \cup {i},
                  contacted |-> st.contacted \/ r.contacted ])

\* manager.execute_orders(orders, confirm)
ExecuteOrders ==
    /\ now + exchange_calls < MaxPlaced
    /\ \E orders \in Batches(BatchOrders), confirm \in Confirms :
       \E envs \in [1..Len(orders) -> Envs] :
          /\ \A i \in 1..Len(orders) :
                envs[i] \in IF ~LogLineRaises(orders[i]) /\ EntersLivePath(orders[i], confirm)
                            THEN EnvsFor(orders[i]) ELSE {NoEnv}
          /\ \E st \in { execute_orders(orders, envs, confirm, test_mode,
                                          trade_confirmation, 1,
                                          BatchStart(order_files, now, exchange_calls)) } :
                /\ order_files' = st.files
                /\ now' = st.now
                /\ exchange_calls' = st.calls
                /\ result' = [ op |-> "execute_orders", orders |-> orders,
                               confirm |-> confirm, results |-> st.results,
                               submitted |-> st.submitted,
                               contacted |-> st.contacted ]
                /\ UNCHANGED <<test_mode, trade_confirmation, cancel_files>>
                /\ UNCHANGED pvars
                /\ UNCHANGED mvars

\* the analyses generate_orders is given, each with a trading_decision; the
\* action of the decision is a string or null
Analyses ==
    { a \in [ symbol : {"BTC"}, status : {"success", "error"},
              action : {"BUY", "sell", "HOLD", "<null>"}, confidence : {"HIGH"} ] :
        a.status = "error" => a.action = "BUY" }

\* str.upper() on the action strings
Upper(action) == IF action = "sell" THEN "SELL" ELSE action

\* extract_trade_signals: the signal, or the AttributeError that .upper()
\* raises on a null action
extract_trade_signals(analysis) ==
    IF analysis.status # "success"
    THEN [ raised |-> "",
           signal |-> [symbol |-> "<missing>", action |-> "NONE",
                       confidence |-> "<missing>"] ]
    ELSE IF analysis.action = "<null>"
    THEN [ raised |-> "AttributeError",
           signal |-> [symbol |-> "<missing>", action |-> "NONE",
                       confidence |-> "<missing>"] ]
    ELSE [ raised |-> "",
           signal |-> [symbol |-> analysis.symbol, action |-> Upper(analysis.action),
                       confidence |-> analysis.confidence] ]

RECURSIVE generate_orders(_, _, _)
\* the loop of generate_orders from item i on, inside the one try block of
\* the method: an exception leaves the loop and the method returns []
generate_orders(analyses, i, orders) ==
    IF i > Len(analyses) THEN [raised |-> "", orders |-> orders]
    ELSE LET e == extract_trade_signals(analyses[i])
         IN  IF e.raised # "" THEN [raised |-> e.raised, orders |-> <<>>]
             ELSE LET order == create_order_from_signal(e.signal, NoAllocation)
                  IN  generate_orders(analyses, i + 1,
                         IF order.none THEN orders
                         ELSE Append(orders, [item |-> i, order |-> order]))

\* manager.generate_orders(analysis_results)
GenerateOrders ==
    \E analyses \in Batches(Analyses) :
       \E g \in { generate_orders(analyses, 1, <<>>) } :
            /\ result' = [ op |-> "generate_orders", analyses |-> analyses,
                           raised |-> g.raised, orders |-> g.orders ]
            /\ UNCHANGED <<test_mode, trade_confirmation, order_files,
                           exchange_calls, now, cancel_files>>
            /\ UNCHANGED pvars
            /\ UNCHANGED mvars

NextBatch == ExecuteOrders \/ GenerateOrders

(***************************************************************************)
(* main: the --buy and --sell actions of the command line                  *)
(***************************************************************************)
\* the parsed arguments: --confirm, --auto, --buy or --sell, --symbol and
\* --price; --amount is 1
CommandLines ==
    [ confirm : BOOLEAN, auto : BOOLEAN, side : {"buy", "sell"},
      symbol : {"BTC", "XXX"}, price : {Missing, Num(1)} ]

\* the confirmation setting main derives from --confirm and --auto
ResolvedConfirm(args) ==
    IF args.confirm THEN "True" ELSE IF args.auto THEN "False" ELSE "None"

\* the confirm argument main hands to buy_asset and sell_asset: args.confirm,
\* a bool that is False when --confirm was not given
PassedConfirm(args) == IF args.confirm THEN "True" ELSE "False"

\* the order buy_asset and sell_asset build
AssetOrder(args) ==
    [ symbol |-> args.symbol,
      type   |-> IF args.price = Missing THEN "market" ELSE "limit",
      side   |-> args.side,
      amount |-> Num(1),
      price  |-> args.price ]

\* buy_asset / sell_asset: the configuration lookup, then submit_order
trade_asset(args, confirm, tm, setting, env, t, calls) ==
    IF ~_get_asset_info(args.symbol).found
    THEN Returned("error", "not found in configuration", <<>>)
    ELSE submit_order(AssetOrder(args), confirm, tm, setting, env, t, calls)

\* python main.py --buy|--sell --symbol S --amount 1 [--price P]
\*                [--confirm] [--auto]
MainTrade ==
    \E args \in CommandLines :
       \E env \in IF EntersLivePath(AssetOrder(args), PassedConfirm(args))
                   THEN EnvsFor(AssetOrder(args)) ELSE {NoEnv} :
       \E r \in { trade_asset(args, PassedConfirm(args), test_mode,
                               trade_confirmation, env, now, exchange_calls) } :
            /\ r.saved => now + exchange_calls < MaxPlaced
            /\ exchange_calls' = IF r.contacted THEN exchange_calls + 1
                                 ELSE exchange_calls
            /\ now' = IF r.simulated THEN now + 1 ELSE now
            /\ order_files' = IF r.saved
                              THEN Put(order_files, r.order_id,
                                       OrderDocument(AssetOrder(args), r))
                              ELSE order_files
            /\ result' = [ op |-> "main", args |-> args, status |-> r.status,
                           reason |-> r.reason, order_id |-> r.order_id,
                           simulated |-> r.simulated, contacted |-> r.contacted,
                           saved |-> r.saved ]
            /\ UNCHANGED <<test_mode, trade_confirmation, cancel_files>>
            /\ UNCHANGED pvars
            /\ UNCHANGED mvars

(***************************************************************************)
(* AIPortfolioManager.run_scheduler                                        *)
(***************************************************************************)
\* the cycles one behaviour of the scheduler starts
MaxCycles == 6

\* the steps of run_full_cycle(execute=False), in order
CycleSteps == <<"fetch_data", "run_analysis", "generate_orders">>

\* run_scheduler has not been called
NotStarted ==
    [ pc |-> "not_started", step |-> 0, started |-> 0, ended |-> 0,
      errors |-> 0, stopped_at |-> "" ]

\* the top of the while loop: the call of run_scheduler, or the return of
\* time.sleep(interval_seconds), starts the next cycle
StartCycle ==
    /\ scheduler.pc \in {"not_started", "sleep"}
    /\ scheduler.started < MaxCycles
    /\ scheduler' = [scheduler EXCEPT !.pc = "cycle", !.step = 1,
                                      !.started = @ + 1]
    /\ UNCHANGED <<pvars, ovars, limiter, request, peer>>

\* one step of run_full_cycle returns, or raises an Exception that the inner
\* except logs; after the last step or the exception the loop sleeps
CycleStep ==
    /\ scheduler.pc = "cycle"
    /\ \E raises \in BOOLEAN :
          scheduler' =
            IF raises
            THEN [scheduler EXCEPT !.pc = "sleep", !.step = 0, !.ended = @ + 1,
                                   !.errors = @ + 1]
            ELSE IF scheduler.step < Len(CycleSteps)
            THEN [scheduler EXCEPT !.step = @ + 1]
            ELSE [scheduler EXCEPT !.pc = "sleep", !.step = 0, !.ended = @ + 1]
    /\ UNCHANGED <<pvars, ovars, limiter, request, peer>>

\* KeyboardInterrupt is raised in the main thread at whatever statement is
\* running inside the outer try: it is no Exception, so the inner except
\* lets it through and the outer except ends the loop
Interrupt ==
    /\ scheduler.pc \in {"cycle", "sleep"}
    /\ scheduler' = [scheduler EXCEPT
                        !.pc = "stopped",
                        !.stopped_at = IF scheduler.pc = "cycle"
                                       THEN CycleSteps[scheduler.step]
                                       ELSE "sleep"]
    /\ UNCHANGED <<pvars, ovars, limiter, request, peer>>

NextScheduler == StartCycle \/ CycleStep \/ Interrupt

(***************************************************************************)
(* APIRateLimiter                                                          *)
(***************************************************************************)
\* the clock time.time() of one behaviour, in seconds, stays below this
MaxClock == 5

\* the seconds of a minute
SecondsPerMinute == 60

\* the calls_per_minute arguments of the constructor; 60 is the default
CallsPerMinute == {20, 30, 60}

\* the endpoint identifiers callers pass
Endpoints == {"prices", "orders"}

\* no call of wait_if_needed has returned
NoWait ==
    [ op |-> "init", endpoint |-> "", first |-> TRUE, called_at |-> 0,
      previous |-> 0, returned_at |-> 0 ]

\* APIRateLimiter(calls_per_minute) constructed at time t
APIRateLimiter(calls_per_minute, t) ==
    [ calls_per_minute |-> calls_per_minute,
      interval         |-> SecondsPerMinute \div calls_per_minute,
      last_call_time   |-> EmptyMap,
      clock            |-> t,
      call             |-> NoWait ]

\* the limiter of the default constructor
NewLimiter == APIRateLimiter(SecondsPerMinute, 0)

\* wait_time with no wait at all
wait_time_none(last_call_time, endpoint, t, interval) == 0

\* the seconds wait_if_needed sleeps when called at time t
wait_time(last_call_time, endpoint, t, interval) ==
    IF endpoint \in DOMAIN last_call_time
    THEN IF t - last_call_time[endpoint] < interval
         THEN interval - (t - last_call_time[endpoint])
         ELSE 0
    ELSE 0

\* a new APIRateLimiter replaces the old one
NewRateLimiter ==
    /\ \E calls_per_minute \in CallsPerMinute :
          limiter' = APIRateLimiter(calls_per_minute, limiter.clock)
    /\ UNCHANGED <<pvars, ovars, scheduler, request, peer>>

\* a second passes between two calls
Tick ==
    /\ limiter.clock < MaxClock
    /\ limiter' = [limiter EXCEPT !.clock = @ + 1]
    /\ UNCHANGED <<pvars, ovars, scheduler, request, peer>>

\* rate_limiter.wait_if_needed(endpoint): time.sleep returns after the
\* requested time or later, then the return time is stored
WaitIfNeeded ==
    /\ \E endpoint \in Endpoints, late \in {0, 1} :
       \E wait \in { wait_time(limiter.last_call_time, endpoint, limiter.clock,
                               limiter.interval) } :
       \E t \in { limiter.clock + wait + (IF wait > 0 THEN late ELSE 0) } :
            /\ t <= MaxClock
            /\ limiter' = [limiter EXCEPT
                    !.last_call_time = Put(@, endpoint, t),
                    !.clock = t,
                    !.call = [ op          |-> "wait_if_needed",
                               endpoint    |-> endpoint,
                               first       |-> endpoint \notin DOMAIN limiter.last_call_time,
                               called_at   |-> limiter.clock,
                               previous    |-> IF endpoint \in DOMAIN limiter.last_call_time
                                               THEN limiter.last_call_time[endpoint]
                                               ELSE 0,
                               returned_at |-> t ]]
    /\ UNCHANGED <<pvars, ovars, scheduler, request, peer>>

NextLimiter == NewRateLimiter \/ Tick \/ WaitIfNeeded

(***************************************************************************)
(* The retry policies of APIClientManager._create_session and api_request  *)
(***************************************************************************)
\* Retry(total=3)
RetryTotal == 3

\* the statuses a server answers with
Statuses == {200, 404, 429, 500, 503}

\* the statuses the claim calls transient
TransientStatuses == {429, 500, 502, 503, 504}

\* who makes the request, with which method and to which URL scheme
Requesters == {"session", "api_request"}
Methods == {"GET", "PUT"}
Schemes == {"https", "http"}

\* status_forcelist of the Retry object
status_forcelist(via) ==
    IF via = "session" THEN {429, 500, 502, 503, 504} ELSE {500, 502, 503, 504}

\* allowed_methods of the Retry object
allowed_methods(via) ==
    IF via = "session" THEN {"GET", "POST"} ELSE {"GET", "POST", "PUT", "DELETE"}

\* the schemes the retrying adapter is mounted for; any other URL goes
\* through the default adapter, which does not retry
mounted(via) == IF via = "session" THEN {"http", "https"} ELSE {"https"}

\* Retry.is_retry: the adapter retries the response
is_retry(via, method, scheme, status) ==
    /\ scheme \in mounted(via)
    /\ method \in allowed_methods(via)
    /\ status \in status_forcelist(via)

\* what the caller gets for the last response when the adapter does not
\* retry it: the session hands the response over, api_request raises for
\* 429 and for every other error status
Surfaced(via, status) ==
    IF via = "session" THEN "response"
    ELSE IF status = 429 THEN "APIRateLimitError"
    ELSE IF status >= 400 THEN "APIConnectionError"
    ELSE "response"

\* what the caller gets when the retries are used up: MaxRetryError, which
\* requests raises as RetryError and api_request as APIConnectionError
Exhausted(via) == IF via = "session" THEN "RetryError" ELSE "APIConnectionError"

\* no request has been made
NoRequest ==
    [ state |-> "idle", via |-> "", method |-> "", scheme |-> "", attempts |-> 0,
      total |-> RetryTotal, statuses |-> {}, status |-> 0, outcome |-> "" ]

\* session.request(method, url, ...) sends the first attempt
SendRequest ==
    /\ request.state \in {"idle", "done"}
    /\ \E via \in Requesters, method \in Methods, scheme \in Schemes :
          request' = [NoRequest EXCEPT !.state = "sending", !.via = via,
                                       !.method = method, !.scheme = scheme]
    /\ UNCHANGED <<pvars, ovars, scheduler, limiter, peer>>

\* the server answers one attempt: the adapter retries it while the policy
\* says so and retries are left, else the request ends
Respond ==
    /\ request.state = "sending"
    /\ \E status \in Statuses :
          request' =
            IF is_retry(request.via, request.method, request.scheme, status)
            THEN IF request.total > 0
                 THEN [request EXCEPT !.attempts = @ + 1, !.total = @ - 1,
                                      !.statuses = @ \cup {status},
                                      !.status = status]
                 ELSE [request EXCEPT !.attempts = @ + 1, !.state = "done",
                                      !.statuses = @ \cup {status},
                                      !.status = status,
                                      !.outcome = Exhausted(request.via)]
            ELSE [request EXCEPT !.attempts = @ + 1, !.state = "done",
                                 !.statuses = @ \cup {status},
                                 !.status = status,
                                 !.outcome = Surfaced(request.via, status)]
    /\ UNCHANGED <<pvars, ovars, scheduler, limiter, peer>>

NextRequest == SendRequest \/ Respond

(***************************************************************************)
(* Two Portfolio instances on one storage path                             *)
(***************************************************************************)
\* the symbols the second Portfolio trades
PeerSymbols == {"ETH"}

\* the document a Portfolio works on reads portfolio.json again before
\* every call
PeerDocument_reloaded(doc, file) == LoadedPortfolio(file)

\* the document a method of a Portfolio works on: self.holdings, loaded once
\* in __init__ and never read from portfolio.json again
PeerDocument(doc, file) == doc

\* the trades of symbol among the trade records
TradesOf(trades, symbols) ==
    { i \in 1..Len(trades) : trades[i].symbol \in symbols }

\* record_trade of the second Portfolio, whose price fetcher is set; its
\* save_portfolio writes the same portfolio.json
PeerRecordTrade ==
    /\ Len(peer.trades) < MaxReadTrades
    /\ \E symbol \in PeerSymbols, action \in {"buy", "sell"},
          quantity \in Quantities, price \in Prices :
        \E prices \in PriceSnapshots(DOMAIN peer.holdings \cup {symbol}) :
        \E r \in { record_trade(PeerDocument(peer, disk), symbol, action, quantity,
                                 price, TRUE, prices) } :
                /\ peer' = r.doc
                /\ disk' = IF r.saved THEN save_portfolio(r.written) ELSE disk
                /\ last' = [ op |-> "peer.record_trade", ok |-> r.ok,
                             error |-> r.error, saved |-> r.saved,
                             replaced |-> r.saved /\ disk.exists
                                          /\ TradesOf(disk.doc.trades, TradedSymbols) # {} ]
                /\ UNCHANGED <<holdings, price_fetcher>>
                /\ UNCHANGED <<ovars, scheduler, limiter, request>>

NextShared == TradeBeforeQuery \/ PeerRecordTrade

(***************************************************************************)
(* Specifications                                                          *)
(***************************************************************************)
\* the ledger: one Portfolio and its callers
Init ==
    /\ holdings = _initialize_portfolio
    /\ price_fetcher = FALSE
    /\ disk = NoFile
    /\ last = NoCall
    /\ test_mode = FALSE
    /\ trade_confirmation = TRUE
    /\ order_files = EmptyMap
    /\ exchange_calls = 0
    /\ now = 0
    /\ result = NoResult
    /\ cancel_files = EmptyMap
    /\ scheduler = NotStarted
    /\ limiter = NewLimiter
    /\ request = NoRequest
    /\ peer = _initialize_portfolio

Spec == Init /\ [][NextPortfolio]_vars

\* the ledger under callers that pass any quantity and price
GivenSpec == Init /\ [][NextGiven]_vars

\* ledgers constructed from a configured initial capital
LedgerSpec == Init /\ [][NextLedger]_vars

\* the ledger and its queries
QuerySpec == Init /\ [][NextQueries]_vars

\* the order lifecycle: one OrderManager, in test mode or not and with
\* system.trade_confirmation on or off, and its callers
OrderInit ==
    /\ holdings = _initialize_portfolio
    /\ price_fetcher = FALSE
    /\ disk = NoFile
    /\ last = NoCall
    /\ test_mode \in BOOLEAN
    /\ trade_confirmation \in BOOLEAN
    /\ order_files = EmptyMap
    /\ exchange_calls = 0
    /\ now = 0
    /\ result = NoResult
    /\ cancel_files = EmptyMap
    /\ scheduler = NotStarted
    /\ limiter = NewLimiter
    /\ request = NoRequest
    /\ peer = _initialize_portfolio

OrderSpec == OrderInit /\ [][NextOrders]_vars

\* the validator: one OrderManager whose _validate_order is called
ValidatorSpec == Init /\ [][ValidateOrder]_vars

\* the signals: one OrderManager whose create_order_from_signal is called
SignalSpec == Init /\ [][CreateOrderFromSignal]_vars

\* the order store: one OrderManager with the default trade_confirmation, in
\* test mode or not, started on an empty output_path or on one that holds
\* documents already, whose callers place and cancel orders and read the
\* history
StoreInit ==
    /\ holdings = _initialize_portfolio
    /\ price_fetcher = FALSE
    /\ disk = NoFile
    /\ last = NoCall
    /\ test_mode \in BOOLEAN
    /\ trade_confirmation = TRUE
    /\ order_files \in {EmptyMap, ForeignStore}
    /\ exchange_calls = 0
    /\ now = 0
    /\ result = NoResult
    /\ cancel_files = EmptyMap
    /\ scheduler = NotStarted
    /\ limiter = NewLimiter
    /\ request = NoRequest
    /\ peer = _initialize_portfolio

StoreSpec == StoreInit /\ [][NextStore]_vars

\* the scheduler and the interrupts of its user
SchedulerSpec == Init /\ [][NextScheduler]_vars

\* the rate limiter and its callers
LimiterSpec == Init /\ [][NextLimiter]_vars

\* network requests and the answers of the server
RequestSpec == Init /\ [][NextRequest]_vars

\* two Portfolio instances constructed on the same empty storage path, each
\* with its price fetcher set by an update_prices(price_fetcher) call that
\* got no prices
SharedInit ==
    /\ holdings = _initialize_portfolio
    /\ price_fetcher = TRUE
    /\ disk = NoFile
    /\ last = NoCall
    /\ test_mode = FALSE
    /\ trade_confirmation = TRUE
    /\ order_files = EmptyMap
    /\ exchange_calls = 0
    /\ now = 0
    /\ result = NoResult
    /\ cancel_files = EmptyMap
    /\ scheduler = NotStarted
    /\ limiter = NewLimiter
    /\ request = NoRequest
    /\ peer = _initialize_portfolio

SharedSpec == SharedInit /\ [][NextShared]_vars

\* the command line, for every test mode and trade_confirmation setting
CommandSpec == OrderInit /\ [][MainTrade]_vars

\* the batches of the orchestration
BatchSpec == Init /\ [][NextBatch]_vars

(***************************************************************************)
(* Properties of the ledger                                                *)
(***************************************************************************)
\* cash plus the current_value of every holding in the map
CashPlusHoldings(doc) ==
    doc.cash + SumOver([s \in DOMAIN doc.holdings |-> doc.holdings[s].current_value],
                       DOMAIN doc.holdings)

TradeSucceeded == last.op = "record_trade" /\ last.ok
TradeFailed == last.op = "record_trade" /\ ~last.ok

\* the trade record of the last successful record_trade
LastTrade(doc) == doc.trades[Len(doc.trades)]

\* C1: after every record_trade that returns true and after every
\* update_prices call, total_value equals cash plus the sum of current_value
\* over all holdings of the map, priced by the snapshot or not.
C1_TotalIsCashPlusHoldings ==
    (TradeSucceeded \/ last.op = "update_prices")
        => holdings.total_value = CashPlusHoldings(holdings)

\* C5: a record_trade that returns false leaves the whole portfolio state
\* (cash, total_value, holdings, trades, history) and the persisted document
\* unchanged.
C5_FailedTradeChangesNothing ==
    [][(last'.op = "record_trade" /\ ~last'.ok)
            => (holdings' = holdings /\ disk' = disk)]_vars

\* a sell of more than the held quantity has failed on a portfolio that holds
\* something and has spent cash
C5_Witness ==
    /\ TradeFailed
    /\ last.error = "Insufficient quantity"
    /\ Len(holdings.trades) > 0
    /\ holdings.cash < InitialCapital

\* C6: with quantity > 0 and price > 0 in every record_trade, every reachable
\* state has cash >= 0 and every holding's quantity >= 0.
C6_NonNegative ==
    /\ holdings.cash >= 0
    /\ \A s \in DOMAIN holdings.holdings : holdings.holdings[s].quantity >= 0

\* a buy has spent all the cash and the next buy has been refused
C6_Witness ==
    /\ TradeFailed
    /\ last.error = "Insufficient cash"
    /\ Len(holdings.trades) = 1
    /\ holdings.cash = 0
    /\ "BTC" \in DOMAIN holdings.holdings
    /\ holdings.holdings["BTC"].quantity = 1

\* C7: in every reachable state each holding has
\* average_price * quantity = cost_basis.
C7_AverageTimesQuantityIsCostBasis ==
    \A s \in DOMAIN holdings.holdings :
        holdings.holdings[s].average_price[1] * holdings.holdings[s].quantity
            = holdings.holdings[s].cost_basis * holdings.holdings[s].average_price[2]

\* C8: after every record_trade that returns true, a Portfolio loaded from the
\* storage has the cash, holdings, trades and history length of the state in
\* memory.
C8_PersistedEqualsMemory ==
    TradeSucceeded =>
        /\ LoadedPortfolio(disk).cash = holdings.cash
        /\ LoadedPortfolio(disk).holdings = holdings.holdings
        /\ LoadedPortfolio(disk).trades = holdings.trades
        /\ Len(LoadedPortfolio(disk).history) = Len(holdings.history)

\* C9: every record_trade that returns true appends exactly one record at the
\* end of trades and one snapshot at the end of history, and no step changes,
\* removes or reorders a record already there.
C9_AppendOnly ==
    [][IF last'.op = "record_trade" /\ last'.ok
       THEN /\ Len(holdings'.trades) = Len(holdings.trades) + 1
            /\ SubSeq(holdings'.trades, 1, Len(holdings.trades)) = holdings.trades
            /\ Len(holdings'.history) = Len(holdings.history) + 1
            /\ SubSeq(holdings'.history, 1, Len(holdings.history)) = holdings.history
       ELSE /\ holdings'.trades = holdings.trades
            /\ holdings'.history = holdings.history]_vars

\* two trades have been recorded, with price updates in between
C9_Witness ==
    /\ Len(holdings.trades) = 2
    /\ Len(holdings.history) = 3
    /\ last.op = "update_prices" /\ last.ok

\* the step is a record_trade that returned true on a sell
SellStep ==
    /\ last'.op = "record_trade" /\ last'.ok
    /\ Len(holdings'.trades) = Len(holdings.trades) + 1
    /\ Lower(LastTrade(holdings').action) = "sell"

\* C10: after a sell the holding stays in the map iff its remaining quantity
\* is greater than zero; selling the whole quantity removes the entry and
\* adds quantity * price to cash; no holding of the map has quantity zero.
C10_SoldOutHoldingRemoved ==
    [][/\ SellStep =>
            LET t         == LastTrade(holdings')
                remaining == holdings.holdings[t.symbol].quantity - t.quantity
            IN  /\ (t.symbol \in DOMAIN holdings'.holdings) <=> (remaining > 0)
                /\ remaining > 0 =>
                        holdings'.holdings[t.symbol].quantity = remaining
                /\ holdings'.cash = holdings.cash + t.quantity * t.price
       /\ \A s \in DOMAIN holdings'.holdings :
                holdings'.holdings[s].quantity # 0]_vars

\* a sell of the whole holding has removed it and paid quantity * price
C10_Witness ==
    /\ TradeSucceeded
    /\ Lower(LastTrade(holdings).action) = "sell"
    /\ LastTrade(holdings).quantity = 2
    /\ LastTrade(holdings).price = 2
    /\ "BTC" \notin DOMAIN holdings.holdings
    /\ holdings.cash = InitialCapital + 2

C18_AllocationIsShareOfTotal ==
    last.op = "get_current_allocation" =>
        /\ FracLeq(Zero, last.value) /\ FracLeq(last.value, <<1, 1>>)
        /\ (last.symbol # "cash" /\ last.symbol \notin DOMAIN holdings.holdings)
                => last.value = Zero
        /\ (last.symbol = "cash" /\ holdings.total_value > 0)
                => last.value = Frac(holdings.cash, holdings.total_value)
        /\ (last.symbol \in DOMAIN holdings.holdings /\ holdings.total_value > 0)
                => last.value = Frac(holdings.holdings[last.symbol].current_value,
                                     holdings.total_value)

\* C19: get_allocation_recommendations is advisory only: the portfolio
\* document (cash, total_value, every field of every holding including its
\* allocation, trades and history) is the same after the call as before it,
\* nothing is written to portfolio.json and the order side is not touched.
C19_RecommendationsAdvisoryOnly ==
    [][last'.op = "get_allocation_recommendations" =>
            /\ holdings' = holdings
            /\ disk' = disk
            /\ order_files' = order_files
            /\ exchange_calls' = exchange_calls]_vars

\* C20: constructing a new ledger with initial_capital <= 0 fails; with
\* initial_capital > 0 it yields cash = total_value = initial_capital, no
\* holdings, no trades and a history of exactly one snapshot.
C20_NewLedger ==
    last.op = "__init__" =>
        IF last.initial_capital <= 0 THEN ~last.ok
        ELSE /\ last.ok
             /\ holdings.cash = last.initial_capital
             /\ holdings.total_value = last.initial_capital
             /\ holdings.holdings = EmptyMap
             /\ holdings.trades = <<>>
             /\ Len(holdings.history) = 1

\* C21: a record_trade call with quantity <= 0 or price <= 0 returns False
\* and changes nothing, so every record of trades has quantity > 0 and
\* price > 0.
C21_OnlyPositiveTrades ==
    [][/\ (/\ last'.op = "record_trade"
            /\ (last'.quantity <= 0 \/ last'.price <= 0))
                => (~last'.ok /\ holdings' = holdings /\ disk' = disk)
       /\ \A i \in 1..Len(holdings'.trades) :
            holdings'.trades[i].quantity > 0 /\ holdings'.trades[i].price > 0]_vars

\* C29: in every ledger state reached by record_trade and update_prices
\* calls from a freshly initialized portfolio, cash is initial_capital minus
\* the values of the buy records of trades plus the values of the sell
\* records of trades.
C29_CashIsCapitalAndTradeValues ==
    holdings.cash =
        holdings.initial_capital
        - SumOver([i \in 1..Len(holdings.trades) |->
                      IF Lower(holdings.trades[i].action) = "buy"
                      THEN holdings.trades[i].value ELSE 0],
                  1..Len(holdings.trades))
        + SumOver([i \in 1..Len(holdings.trades) |->
                      IF Lower(holdings.trades[i].action) = "sell"
                      THEN holdings.trades[i].value ELSE 0],
                  1..Len(holdings.trades))

\* a buy and then a sell of another value have been recorded by a Portfolio
\* whose price fetcher is set, and cash differs from the initial capital
C29_Witness ==
    /\ Len(holdings.trades) = 2
    /\ Lower(holdings.trades[1].action) = "buy"
    /\ Lower(holdings.trades[2].action) = "sell"
    /\ holdings.trades[2].value # holdings.trades[1].value
    /\ holdings.cash # holdings.initial_capital
    /\ price_fetcher

(***************************************************************************)
(* Properties of the order lifecycle                                       *)
(***************************************************************************)
\* C2: when test mode is off and the live exchange call of submit_order fails,
\* submit_order returns status error with the underlying reason; it never
\* returns a simulated fill with status success, and a simulated fill is
\* produced only when test mode was selected.
C2_LiveFailureSurfaces ==
    /\ (result.op = "submit_order" /\ ~test_mode /\ result.live_failure # "")
            => /\ result.status = "error"
               /\ result.reason = result.live_failure
               /\ ~result.simulated
    /\ result.simulated => test_mode

\* C3: submit_order on a valid order requires confirmation as the confirm
\* argument says when it is given and as trade_confirmation says otherwise;
\* when confirmation is required it returns pending_confirmation, contacts no
\* exchange and persists no result; when it is not required it does not
\* return pending_confirmation.
C3_ConfirmationGate ==
    [][(result'.op = "submit_order" /\ result'.validation = "valid") =>
            IF \/ result'.confirm = "True"
               \/ (result'.confirm = "None" /\ trade_confirmation)
            THEN /\ result'.status = "pending_confirmation"
                 /\ ~result'.contacted /\ exchange_calls' = exchange_calls
                 /\ ~result'.saved /\ order_files' = order_files
            ELSE result'.status # "pending_confirmation"]_vars

\* with trade_confirmation off and an order already placed on the exchange, a
\* valid order submitted with confirm = True has been held back
C3_Witness ==
    /\ result.op = "submit_order" /\ result.validation = "valid"
    /\ ~trade_confirmation /\ ~test_mode
    /\ result.confirm = "True"
    /\ result.status = "pending_confirmation"
    /\ exchange_calls = 1
    /\ order_files # EmptyMap

\* C4: submit_order on an order that fails validation returns status error
\* with reason "Validation failed" and a non-empty error list, contacts no
\* exchange and persists no result, whatever confirm and trade_confirmation
\* are.
C4_InvalidOrderRejected ==
    [][(result'.op = "submit_order" /\ result'.validation = "invalid") =>
            /\ result'.status = "error"
            /\ result'.reason = "Validation failed"
            /\ result'.errors # <<>>
            /\ ~result'.contacted /\ exchange_calls' = exchange_calls
            /\ ~result'.saved /\ order_files' = order_files]_vars

\* a limit order without a price has been rejected although confirm = False
\* and trade_confirmation off would have let a valid order through, after an
\* order was placed
C4_Witness ==
    /\ result.op = "submit_order" /\ result.validation = "invalid"
    /\ result.confirm = "False" /\ ~trade_confirmation /\ ~test_mode
    /\ result.errors = <<"Price is required for limit orders">>
    /\ result.status = "error"
    /\ order_files # EmptyMap

(***************************************************************************)
(* Properties of the order store                                           *)
(***************************************************************************)
\* C11: every submit_order call that returns status success writes exactly
\* one document, under its own order_id, and overwrites no document of an
\* earlier submission: the id is new in the store, the store grows by that
\* id and every document already there is kept.  (All calls of a behaviour
\* fall on one date, so the date part of the key is the same for all.)
C11_OneDocumentPerSuccess ==
    [][(result'.op = "submit_order" /\ result'.status = "success") =>
            /\ result'.order_id \notin DOMAIN order_files
            /\ DOMAIN order_files' = DOMAIN order_files \cup {result'.order_id}
            /\ \A id \in DOMAIN order_files : order_files'[id] = order_files[id]]_vars

\* C12: cancel_order with an order_id under which no order is persisted
\* returns status error with a "not found" reason, calls no exchange and
\* writes no cancellation record (nor any other file).
C12_UnknownOrderNotCancelled ==
    [][(result'.op = "cancel_order" /\ result'.order_id \notin DOMAIN order_files) =>
            /\ result'.status = "error"
            /\ result'.reason = "not found"
            /\ ~result'.contacted /\ exchange_calls' = exchange_calls
            /\ ~result'.saved /\ cancel_files' = cancel_files
            /\ order_files' = order_files]_vars

\* with an order of the exchange persisted and one cancellation written, a
\* cancel_order for an id that is not in the store has been refused
C12_Witness ==
    /\ result.op = "cancel_order"
    /\ result.order_id \notin DOMAIN order_files
    /\ result.status = "error"
    /\ <<"live", 1>> \in DOMAIN order_files
    /\ <<"live", 1>> \in DOMAIN cancel_files

\* C16: get_order_history(days_back) returns exactly the persisted order
\* records whose timestamp is at or after now minus days_back days and the
\* records whose timestamp is missing or cannot be parsed, each once, the
\* records with a time ordered newest first, and no cancellation record.
C16_HistoryWindow ==
    result.op = "get_order_history" =>
        /\ \A i \in 1..Len(result.orders) : result.orders[i][1] = "order"
        /\ \A i, j \in 1..Len(result.orders) :
                i # j => result.orders[i] # result.orders[j]
        /\ { result.orders[i][2] : i \in 1..Len(result.orders) }
              = { id \in DOMAIN order_files :
                    \/ TimestampKind(order_files[id]) # "iso"
                    \/ order_files[id].timestamp
                            >= now - result.days_back * SecondsPerDay }
        /\ \A i, j \in 1..Len(result.orders) :
                (/\ i < j
                 /\ TimestampKind(order_files[result.orders[i][2]]) = "iso"
                 /\ TimestampKind(order_files[result.orders[j][2]]) = "iso")
                    => order_files[result.orders[i][2]].timestamp
                            >= order_files[result.orders[j][2]].timestamp

(***************************************************************************)
(* Properties of the validator                                             *)
(***************************************************************************)
\* C13: for an order that has symbol, type, side and amount, the errors list
\* the validator returns holds one entry for every failed check among: the
\* symbol is configured, type is market or limit, side is buy or sell,
\* amount is a number > 0, a limit order has a price that is a number > 0.
C13_AllFailuresReported ==
    (/\ result.op = "_validate_order"
     /\ result.raised = ""
     /\ result.order.symbol # "<missing>" /\ result.order.type # "<missing>"
     /\ result.order.side # "<missing>" /\ result.order.amount # Missing)
        => Len(result.errors) =
              (IF result.order.symbol \in {"BTC", "AAPL"} THEN 0 ELSE 1)
            + (IF result.order.type \in {"market", "limit"} THEN 0 ELSE 1)
            + (IF result.order.side \in {"buy", "sell"} THEN 0 ELSE 1)
            + (IF result.order.amount.k = "num" /\ result.order.amount.v > 0
               THEN 0 ELSE 1)
            + (IF result.order.type = "limit"
                  /\ ~(result.order.price.k = "num" /\ result.order.price.v > 0)
               THEN 1 ELSE 0)

\* C14: the validator never raises; it returns valid = true exactly when the
\* four required keys are present, the symbol is configured, type is market
\* or limit, side is buy or sell, amount is a number > 0 and a limit order has
\* a price that is a number > 0; every other order gets valid = false with a
\* non-empty errors list.
C14_StructuredResultNeverRaises ==
    result.op = "_validate_order" =>
        /\ result.raised = ""
        /\ result.valid <=>
                /\ result.order.symbol \in {"BTC", "AAPL"}
                /\ result.order.type \in {"market", "limit"}
                /\ result.order.side \in {"buy", "sell"}
                /\ result.order.amount.k = "num" /\ result.order.amount.v > 0
                /\ result.order.type = "limit" =>
                        (result.order.price.k = "num" /\ result.order.price.v > 0)
        /\ ~result.valid => result.errors # <<>>

(***************************************************************************)
(* Properties of create_order_from_signal                                  *)
(***************************************************************************)
\* C15: create_order_from_signal returns no order when the action is HOLD or
\* NONE or the symbol is not configured; otherwise it returns a market order
\* with side buy iff the action is BUY (sell otherwise) and amount
\* allocation * 1000, where an allocation that is not supplied is
\* max_allocation for HIGH, 0.6 * max_allocation for MEDIUM and
\* 0.3 * max_allocation for LOW confidence.
C15_OrderFromSignal ==
    result.op = "create_order_from_signal" =>
        IF \/ result.signal.action \in {"HOLD", "NONE"}
           \/ result.signal.symbol \notin {"BTC", "AAPL"}
        THEN result.order.none
        ELSE /\ ~result.order.none
             /\ result.order.symbol = result.signal.symbol
             /\ result.order.type = "market"
             /\ (result.order.side = "buy") <=> (result.signal.action = "BUY")
             /\ result.order.side \in {"buy", "sell"}
             /\ result.allocation # NoAllocation =>
                    result.order.amount
                        = Frac(1000 * result.allocation[1], result.allocation[2])
             /\ (result.allocation = NoAllocation /\ result.signal.confidence = "HIGH")
                    => result.order.amount = Frac(1000 * 20, 100)
             /\ (result.allocation = NoAllocation /\ result.signal.confidence = "MEDIUM")
                    => result.order.amount = Frac(1000 * 20 * 6, 100 * 10)
             /\ (result.allocation = NoAllocation /\ result.signal.confidence = "LOW")
                    => result.order.amount = Frac(1000 * 20 * 3, 100 * 10)

\* a SELL signal of MEDIUM confidence without an allocation has given a
\* market sell of 120
C15_Witness ==
    /\ result.op = "create_order_from_signal"
    /\ result.signal = [symbol |-> "BTC", action |-> "SELL", confidence |-> "MEDIUM"]
    /\ result.allocation = NoAllocation
    /\ result.order.side = "sell"
    /\ result.order.amount = <<120, 1>>

(***************************************************************************)
(* Properties of the test mode                                             *)
(***************************************************************************)
\* C22: with test_mode = True no operation contacts the live exchange:
\* submit_order, cancel_order and cancel_all_orders call no method of the
\* kucoin client.
C22_TestModeNeverContactsExchange ==
    [][test_mode =>
            /\ exchange_calls' = exchange_calls
            /\ (result'.op \in {"submit_order", "cancel_order", "cancel_all_orders"}
                    => ~result'.contacted)]_vars

(***************************************************************************)
(* Properties of the batches                                               *)
(***************************************************************************)
\* C23: an unexpected exception on one item of a batch does not stop the
\* rest of the batch: execute_orders calls submit_order for every order of
\* the batch whose log line can be written, and generate_orders returns the
\* order of every analysis that yields one.
C23_BatchContinues ==
    /\ result.op = "execute_orders" =>
            \A i \in 1..Len(result.orders) :
                ~LogLineRaises(result.orders[i]) => i \in result.submitted
    /\ result.op = "generate_orders" =>
            \A i \in 1..Len(result.analyses) :
                (/\ extract_trade_signals(result.analyses[i]).raised = ""
                 /\ ~create_order_from_signal(
                        extract_trade_signals(result.analyses[i]).signal,
                        NoAllocation).none)
                    => \E j \in 1..Len(result.orders) : result.orders[j].item = i

(***************************************************************************)
(* Properties of the scheduler                                             *)
(***************************************************************************)
\* C24: an interrupt stops run_scheduler only between cycles: the loop stops
\* only from the sleep between two cycles, so every cycle that has started
\* has ended, and an error raised inside a cycle does not stop the loop.
C24_StopsOnlyBetweenCycles ==
    [][/\ (scheduler'.pc = "stopped" /\ scheduler.pc # "stopped")
            => (scheduler.pc = "sleep" /\ scheduler'.started = scheduler'.ended)
       /\ scheduler'.errors > scheduler.errors => scheduler'.pc = "sleep"]_vars

(***************************************************************************)
(* Properties of the rate limiter                                          *)
(***************************************************************************)
\* C25: a return of wait_if_needed for an endpoint comes at least
\* 60 / calls_per_minute seconds after the return before it for the same
\* endpoint; the first call for an endpoint does not wait; a call waits only
\* when the last return for its own endpoint is less than the interval ago.
C25_MinimumGapPerEndpoint ==
    limiter.call.op = "wait_if_needed" =>
        /\ ~limiter.call.first =>
                (limiter.call.returned_at - limiter.call.previous)
                    * limiter.calls_per_minute >= SecondsPerMinute
        /\ limiter.call.first => limiter.call.returned_at = limiter.call.called_at
        /\ limiter.call.returned_at > limiter.call.called_at =>
                /\ ~limiter.call.first
                /\ (limiter.call.called_at - limiter.call.previous)
                        * limiter.calls_per_minute < SecondsPerMinute

\* a call for an endpoint has waited while the other endpoint was called as
\* well, under a limiter of 20 calls per minute
C25_Witness ==
    /\ limiter.call.op = "wait_if_needed"
    /\ limiter.calls_per_minute = 20
    /\ ~limiter.call.first
    /\ limiter.call.returned_at > limiter.call.called_at
    /\ limiter.call.called_at > limiter.call.previous
    /\ DOMAIN limiter.last_call_time = Endpoints

(***************************************************************************)
(* Properties of the retry policies                                        *)
(***************************************************************************)
\* C26: a request that received nothing but transient statuses (429, 500,
\* 502, 503, 504) ends after its 3 retries with a failure, for the session
\* and for api_request; an answer with a 4xx status other than 429 ends the
\* request at once, without a retry.
C26_BoundedRetry ==
    /\ request.attempts <= RetryTotal + 1
    /\ (request.state = "done" /\ request.statuses \subseteq TransientStatuses)
            => (request.attempts = RetryTotal + 1 /\ request.outcome # "response")
    /\ (request.status >= 400 /\ request.status < 500 /\ request.status # 429)
            => request.state = "done"

(***************************************************************************)
(* Properties of the shared storage                                        *)
(***************************************************************************)
\* C27: two Portfolio instances on one storage path race: each writes the
\* document it loaded at construction plus its own trades, so portfolio.json
\* never holds the trades of both writers; once both have recorded a trade
\* the file lacks the trade of one of them.
C27_LastWriterWins ==
    disk.exists =>
        \/ TradesOf(disk.doc.trades, TradedSymbols) = {}
        \/ TradesOf(disk.doc.trades, PeerSymbols) = {}

\* both writers have recorded a successful trade and saved it, and the
\* write of the second replaced the file that held the trade of the first:
\* the file lacks that trade, its cash change and its holding
C27_Witness ==
    /\ last.op = "peer.record_trade" /\ last.ok /\ last.replaced
    /\ TradesOf(holdings.trades, TradedSymbols) # {}
    /\ TradesOf(peer.trades, PeerSymbols) # {}
    /\ disk.exists
    /\ TradesOf(disk.doc.trades, TradedSymbols) = {}
    /\ DOMAIN disk.doc.holdings \cap TradedSymbols = {}
    /\ DOMAIN holdings.holdings \cap TradedSymbols # {}
    /\ disk.doc.cash # holdings.cash

(***************************************************************************)
(* Properties of the command line                                          *)
(***************************************************************************)
\* C28: a --buy or --sell run with neither --confirm nor --auto follows the
\* global trade_confirmation: when it is true the order comes back as
\* pending_confirmation and nothing is sent or saved; an order is
\* dispatched only when --auto was given or the setting is false.
C28_GlobalSettingDecides ==
    [][result'.op = "main" =>
        /\ (/\ ~result'.args.confirm /\ ~result'.args.auto
            /\ trade_confirmation
            /\ _get_asset_info(result'.args.symbol).found)
                => /\ result'.status = "pending_confirmation"
                   /\ exchange_calls' = exchange_calls
                   /\ order_files' = order_files
        /\ result'.saved => (result'.args.auto \/ ~trade_confirmation)]_vars

(***************************************************************************)
(* Properties of the signal actions                                        *)
(***************************************************************************)
\* C30: create_order_from_signal returns a sell order only for a signal
\* whose action is SELL; a signal without an action, or with an action
\* outside BUY, SELL, HOLD and NONE, yields no order.
C30_SellOnlyForSell ==
    result.op = "create_order_from_signal" =>
        /\ (~result.order.none /\ result.order.side = "sell")
                => result.signal.action = "SELL"
        /\ result.signal.action \notin {"BUY", "SELL", "HOLD", "NONE"}
                => result.order.none

====
